---- MODULE Spec2Model ----
(***************************************************************************)
(* FEpicUnrealMCPBlueprintCommands: the Blueprint command handler of the   *)
(* UnrealMCP editor plugin.  HandleCommand receives a command name and a   *)
(* JSON parameter bag, and the handler it dispatches to checks its         *)
(* parameters and calls into the editor (asset library, blueprint          *)
(* utilities, construction script, world).  The model keeps the editor     *)
(* state the handlers read and write, applies one whole HandleCommand per  *)
(* step, and records the response, the handler that ran and the editor     *)
(* calls it made.                                                          *)
(***************************************************************************)
EXTENDS Integers, Sequences, FiniteSets, TLC

(***************************************************************************)
(* FString.  A string is a sequence of one-character strings.  FString's   *)
(* operator==, StartsWith and EndsWith ignore letter case (the engine's    *)
(* default ESearchCase::IgnoreCase), and so do FName comparisons, which    *)
(* asset paths, object names and class names go through.                   *)
(***************************************************************************)
UpperCase == {"A","B","C","D","E","F","G","H","I","J","K","L","M",
              "N","O","P","Q","R","S","T","U","V","W","X","Y","Z"}

UpperToLower ==
    [c \in UpperCase |->
       CASE c = "A" -> "a" [] c = "B" -> "b" [] c = "C" -> "c" [] c = "D" -> "d"
         [] c = "E" -> "e" [] c = "F" -> "f" [] c = "G" -> "g" [] c = "H" -> "h"
         [] c = "I" -> "i" [] c = "J" -> "j" [] c = "K" -> "k" [] c = "L" -> "l"
         [] c = "M" -> "m" [] c = "N" -> "n" [] c = "O" -> "o" [] c = "P" -> "p"
         [] c = "Q" -> "q" [] c = "R" -> "r" [] c = "S" -> "s" [] c = "T" -> "t"
         [] c = "U" -> "u" [] c = "V" -> "v" [] c = "W" -> "w" [] c = "X" -> "x"
         [] c = "Y" -> "y" [] c = "Z" -> "z"]

ToLowerChar(c) == IF c \in UpperCase THEN UpperToLower[c] ELSE c

ToLower(s) == [i \in 1..Len(s) |-> ToLowerChar(s[i])]

\* FString::operator== (case is ignored): the same length and, position by position,
\* the same character up to letter case
FStringEq(a, b) ==
    /\ Len(a) = Len(b)
    /\ \A i \in 1..Len(a) : ToLowerChar(a[i]) = ToLowerChar(b[i])

\* FString::StartsWith(Prefix), ESearchCase::IgnoreCase
StartsWith(s, p) ==
    /\ Len(p) > 0
    /\ Len(s) >= Len(p)
    /\ FStringEq(SubSeq(s, 1, Len(p)), p)

\* FString::EndsWith(Suffix), ESearchCase::IgnoreCase
EndsWith(s, p) ==
    /\ Len(p) > 0
    /\ Len(s) >= Len(p)
    /\ FStringEq(SubSeq(s, Len(s) - Len(p) + 1, Len(s)), p)

\* FString::IsEmpty
IsEmpty(s) == Len(s) = 0

(***************************************************************************)
(* String literals of the source, TEXT("...").                             *)
(***************************************************************************)
CmdCreateBlueprint == <<"c","r","e","a","t","e","_","b","l","u","e","p","r","i","n","t">>

CmdAddComponentToBlueprint == <<"a","d","d","_","c","o","m","p","o","n","e","n","t","_","t","o","_","b","l","u","e","p","r","i","n","t">>

CmdSetPhysicsProperties == <<"s","e","t","_","p","h","y","s","i","c","s","_","p","r","o","p","e","r","t","i","e","s">>

CmdCompileBlueprint == <<"c","o","m","p","i","l","e","_","b","l","u","e","p","r","i","n","t">>

CmdSetStaticMeshProperties == <<"s","e","t","_","s","t","a","t","i","c","_","m","e","s","h","_","p","r","o","p","e","r","t","i","e","s">>

CmdSpawnBlueprintActor == <<"s","p","a","w","n","_","b","l","u","e","p","r","i","n","t","_","a","c","t","o","r">>

CmdSetMeshMaterialColor == <<"s","e","t","_","m","e","s","h","_","m","a","t","e","r","i","a","l","_","c","o","l","o","r">>

CmdGetAvailableMaterials == <<"g","e","t","_","a","v","a","i","l","a","b","l","e","_","m","a","t","e","r","i","a","l","s">>

CmdApplyMaterialToActor == <<"a","p","p","l","y","_","m","a","t","e","r","i","a","l","_","t","o","_","a","c","t","o","r">>

CmdApplyMaterialToBlueprint == <<"a","p","p","l","y","_","m","a","t","e","r","i","a","l","_","t","o","_","b","l","u","e","p","r","i","n","t">>

CmdGetActorMaterialInfo == <<"g","e","t","_","a","c","t","o","r","_","m","a","t","e","r","i","a","l","_","i","n","f","o">>

CmdGetBlueprintMaterialInfo == <<"g","e","t","_","b","l","u","e","p","r","i","n","t","_","m","a","t","e","r","i","a","l","_","i","n","f","o">>

CmdReadBlueprintContent == <<"r","e","a","d","_","b","l","u","e","p","r","i","n","t","_","c","o","n","t","e","n","t">>

CmdAnalyzeBlueprintGraph == <<"a","n","a","l","y","z","e","_","b","l","u","e","p","r","i","n","t","_","g","r","a","p","h">>

CmdGetBlueprintVariableDetails == <<"g","e","t","_","b","l","u","e","p","r","i","n","t","_","v","a","r","i","a","b","l","e","_","d","e","t","a","i","l","s">>

CmdGetBlueprintFunctionDetails == <<"g","e","t","_","b","l","u","e","p","r","i","n","t","_","f","u","n","c","t","i","o","n","_","d","e","t","a","i","l","s">>

CmdOpenAssetInEditor == <<"o","p","e","n","_","a","s","s","e","t","_","i","n","_","e","d","i","t","o","r">>

PackagePath == <<"/","G","a","m","e","/","B","l","u","e","p","r","i","n","t","s","/">>

ScriptEnginePrefix == <<"/","S","c","r","i","p","t","/","E","n","g","i","n","e",".">>

ScriptGamePrefix == <<"/","S","c","r","i","p","t","/","G","a","m","e",".">>

TextA == <<"A">>

TextAPawn == <<"A","P","a","w","n">>

TextAActor == <<"A","A","c","t","o","r">>

TextU == <<"U">>

TextComponent == <<"C","o","m","p","o","n","e","n","t">>

TextEventGraph == <<"E","v","e","n","t","G","r","a","p","h">>

TextMaterial == <<"M","a","t","e","r","i","a","l">>

TextUasset == <<".","u","a","s","s","e","t">>

TextSlash == <<"/">>

GamePath == <<"/","G","a","m","e","/">>

EnginePath == <<"/","E","n","g","i","n","e","/">>

BasicShapeMaterial == <<"/","E","n","g","i","n","e","/","B","a","s","i","c","S","h","a","p","e","s","/","B","a","s","i","c","S","h","a","p","e","M","a","t","e","r","i","a","l">>

ActorClassPath == <<"/","S","c","r","i","p","t","/","E","n","g","i","n","e",".","A","c","t","o","r">>

PawnClassPath == <<"/","S","c","r","i","p","t","/","E","n","g","i","n","e",".","P","a","w","n">>

WorldGridMaterial == <<"/","E","n","g","i","n","e","/","E","n","g","i","n","e","M","a","t","e","r","i","a","l","s","/","W","o","r","l","d","G","r","i","d","M","a","t","e","r","i","a","l">>

TextDefaultSceneRoot == <<"D","e","f","a","u","l","t","S","c","e","n","e","R","o","o","t">>

\* FString::Contains(SubStr), ESearchCase::IgnoreCase
Contains(s, sub) ==
    /\ Len(sub) > 0
    /\ \E i \in 1..(Len(s) - Len(sub) + 1) :
          FStringEq(SubSeq(s, i, i + Len(sub) - 1), sub)

(***************************************************************************)
(* JSON.  A value carries its type and one payload per type.  A string     *)
(* value is kept as the format and the argument FString::Printf was given  *)
(* ("%s" and the string itself for a plain string).  A JSON object (Params,*)
(* a response) is a function from its field names to values.              *)
(***************************************************************************)
JStr(str) == [s |-> str, a |-> <<>>, b |-> FALSE, t |-> "String", fmt |-> "%s", n |-> 0]

JPrintf(format, arg) ==
    [s |-> arg, a |-> <<>>, b |-> FALSE, t |-> "String", fmt |-> format, n |-> 0]

JText(literal) == JPrintf(literal, <<>>)

JNum(num) == [s |-> <<>>, a |-> <<>>, b |-> FALSE, t |-> "Number", fmt |-> "", n |-> num]

JBool(bool) == [s |-> <<>>, a |-> <<>>, b |-> bool, t |-> "Boolean", fmt |-> "", n |-> 0]

JArr(arr) == [s |-> <<>>, a |-> arr, b |-> FALSE, t |-> "Array", fmt |-> "", n |-> 0]

EmptyObject == [f \in {} |-> JNum(0)]

\* FJsonObject::HasField
HasField(Params, f) == f \in DOMAIN Params

\* FJsonObject::TryGetStringField: the field is there and holds a string.
\* (The parameter bags of this model put a string or an array in a string field.)
TryGetStringField(Params, f) == HasField(Params, f) /\ Params[f].t = "String"

GetStringField(Params, f) == Params[f].s

\* FJsonObject::TryGetBoolField with the default the caller initialised
GetBoolOr(Params, f, default) ==
    IF HasField(Params, f) /\ Params[f].t = "Boolean" THEN Params[f].b ELSE default

\* FEpicUnrealMCPCommonUtils::CreateErrorResponse
CreateErrorResponse(Message) == [success |-> JBool(FALSE), error |-> Message]

IsErrorResponse(r) == "error" \in DOMAIN r

\* FEpicUnrealMCPCommonUtils::GetVectorFromJson / GetRotatorFromJson: the three
\* numbers of the array field, and zero when it is no array of three.
ZeroVector == <<0, 0, 0>>

GetVectorFromJson(Params, f) ==
    IF HasField(Params, f) /\ Params[f].t = "Array" /\ Len(Params[f].a) = 3
    THEN [i \in 1..3 |-> Params[f].a[i].n]
    ELSE ZeroVector

(***************************************************************************)
(* The editor.                                                             *)
(*   classes    the classes FindObject<UClass> and LoadClass resolve, by   *)
(*              the (case-folded) name or path they resolve under; comp is *)
(*              the depth in UObject(0) > UActorComponent(1) >             *)
(*              USceneComponent(2) > UPrimitiveComponent(3) >              *)
(*              UStaticMeshComponent(4); actor: a subclass of AActor       *)
(*   assets     the asset registry: case-folded path and kind              *)
(*   packages   the packages CreatePackage made                            *)
(*   blueprints the UBlueprint objects by case-folded asset path           *)
(*   actors     the actors of the editor world                             *)
(*   dirty      the packages marked dirty                                  *)
(*   editors    the assets with an open asset editor                       *)
(*   level      the level the level editor has loaded                      *)
(*   crashed    the editor process died (a null pointer was dereferenced)  *)
(* and of the last HandleCommand call, until its caller has taken the      *)
(* response (pc = "returned"): cmd and params it was given, resp it        *)
(* returned, ran: the handlers it ran, calls: the editor calls they made.  *)
(***************************************************************************)
VARIABLES classes, assets, packages, blueprints, actors, dirty, editors, level,
          crashed, pc, cmd, params, resp, ran, calls

engineVars == <<classes, assets, packages, blueprints, actors, dirty, editors, level>>

vars == <<classes, assets, packages, blueprints, actors, dirty, editors, level,
          crashed, pc, cmd, params, resp, ran, calls>>

Engine ==
    [classes |-> classes, assets |-> assets, packages |-> packages,
     blueprints |-> blueprints, actors |-> actors, dirty |-> dirty,
     editors |-> editors, level |-> level]

\* One editor call of a handler, as the log keeps it.
Call(api, arg) == [arg |-> arg, api |-> api]

\* A handler returning a response.
Return(handler, E, response, log) ==
    [resp |-> response, ran |-> <<handler>>, calls |-> log, E |-> E, crash |-> FALSE]

\* A handler dereferencing a null pointer: the editor process dies with an access
\* violation and no response is returned.
NullDereference(handler, E, log) ==
    [resp |-> EmptyObject, ran |-> <<handler>>, calls |-> log, E |-> E, crash |-> TRUE]

\* What the engine may answer where the handler checks the answer for null/false.
DefaultOracle ==
    [factoryOk |-> TRUE, nodeOk |-> TRUE, worldOk |-> TRUE, spawnOk |-> TRUE,
     dynOk |-> TRUE, subsystemOk |-> TRUE, openOk |-> TRUE]

\* UEditorAssetLibrary::DoesAssetExist
DoesAssetExist(E, Path) == \E a \in E.assets : a.path = ToLower(Path)

\* UEditorAssetLibrary::LoadAsset: the asset at the path (none: the empty set)
LoadAsset(E, Path) == {a \in E.assets : a.path = ToLower(Path)}

\* FindObject<UClass>(nullptr, Name)
FindObject(E, Name) == {c \in E.classes : c.key = ToLower(Name)}

\* LoadClass<AActor>(nullptr, Path): the class at the path, if it is an actor class
LoadClassActor(E, Path) == {c \in E.classes : c.key = ToLower(Path) /\ c.actor}

\* AActor::StaticClass(), APawn::StaticClass()
AActorStaticClass == [key |-> ToLower(ActorClassPath), actor |-> TRUE, comp |-> 0]

APawnStaticClass == [key |-> ToLower(PawnClassPath), actor |-> TRUE, comp |-> 0]

\* FEpicUnrealMCPCommonUtils::FindBlueprint: the blueprint asset of that name under
\* /Game/Blueprints/ (its key in blueprints; none: the empty sequence)
LoadedBlueprint(E, key) == IF key \in DOMAIN E.blueprints THEN <<key>> ELSE <<>>

FindBlueprint(E, BlueprintName) == LoadedBlueprint(E, ToLower(PackagePath \o BlueprintName))

\* The UBlueprint UBlueprintFactory::FactoryCreateNew makes for an actor class:
\* compiled, with an empty construction script and the event graph.
NewBlueprint(AssetName, ParentClass) ==
    [name |-> AssetName, parent |-> ParentClass.key, scs |-> TRUE, isActor |-> TRUE,
     nodes |-> <<>>, gen |-> TRUE, status |-> "BS_UpToDate",
     variables |-> <<>>, functions |-> <<>>,
     ubergraphs |-> <<[name |-> TextEventGraph, nodes |-> 3]>>]

(***************************************************************************)
(* HandleCreateBlueprint                                                   *)
(***************************************************************************)
\* The "Handle parent class" block: [cls, calls], the class the factory is given
\* and the LoadClass calls made to find it.
\* FoundClass after LoadClass of ClassPath and, when that found nothing, GameClassPath
LoadParentClass(E, ClassPath, GameClassPath, first) ==
    IF first # {}
    THEN [calls |-> <<Call("LoadClass", ClassPath)>>, cls |-> first]
    ELSE [calls |-> <<Call("LoadClass", ClassPath), Call("LoadClass", GameClassPath)>>,
          cls |-> LoadClassActor(E, GameClassPath)]

\* A variant that falls back to APawn when no class is found
SelectFoundOrPawn(found) ==
    [calls |-> found.calls,
     cls |-> IF found.cls # {} THEN CHOOSE c \in found.cls : TRUE ELSE APawnStaticClass]

\* if (FoundClass) SelectedParentClass = FoundClass, else it stays AActor
SelectFound(found) ==
    [calls |-> found.calls,
     cls |-> IF found.cls # {} THEN CHOOSE c \in found.cls : TRUE ELSE AActorStaticClass]

FindParentClass(E, ClassName, ClassPath, GameClassPath) ==
    IF FStringEq(ClassName, TextAPawn) THEN [calls |-> <<>>, cls |-> APawnStaticClass]
    ELSE IF FStringEq(ClassName, TextAActor) THEN [calls |-> <<>>, cls |-> AActorStaticClass]
    ELSE SelectFound(LoadParentClass(E, ClassPath, GameClassPath,
                                     LoadClassActor(E, ClassPath)))

\* ClassName: the parent_class given, with an "A" in front unless it starts with one
PrefixedClassName(ParentClass) ==
    IF ~StartsWith(ParentClass, TextA) THEN TextA \o ParentClass ELSE ParentClass

FindPrefixedClass(E, ClassName) ==
    FindParentClass(E, ClassName, ScriptEnginePrefix \o ClassName,
                    ScriptGamePrefix \o ClassName)

SelectParentClass(E, ParentClass) ==
    IF IsEmpty(ParentClass)
    THEN [calls |-> <<>>, cls |-> AActorStaticClass]
    ELSE FindPrefixedClass(E, PrefixedClassName(ParentClass))

\* The asset registry and the blueprint table after FactoryCreateNew and AssetCreated
WithNewBlueprint(E, key, Blueprint) ==
    [E EXCEPT !.assets = @ \cup {[path |-> key, kind |-> "Blueprint", sections |-> 0]},
              !.blueprints = [p \in DOMAIN @ \cup {key} |->
                                 IF p = key THEN Blueprint ELSE @[p]]]

\* CreatePackage
CreatePackage(E, key) == [E EXCEPT !.packages = @ \cup {key}]

\* UPackage::MarkPackageDirty
MarkPackageDirty(E, key) == [E EXCEPT !.dirty = @ \cup {key}]

\* From "Create the blueprint factory" to the end, for the chosen parent class sel
CreateFromFactory(E, o, AssetName, Path, key, sel) ==
    IF o.factoryOk
    THEN Return("HandleCreateBlueprint",
                MarkPackageDirty(WithNewBlueprint(CreatePackage(E, key), key,
                                                  NewBlueprint(AssetName, sel.cls)), key),
                [path |-> JStr(Path), name |-> JStr(AssetName)],
                <<Call("DoesAssetExist", Path)>> \o sel.calls
                  \o <<Call("CreatePackage", Path), Call("FactoryCreateNew", sel.cls.key),
                       Call("AssetCreated", Path), Call("MarkPackageDirty", Path)>>)
    ELSE Return("HandleCreateBlueprint", CreatePackage(E, key),
                CreateErrorResponse(JText("Failed to create blueprint")),
                <<Call("DoesAssetExist", Path)>> \o sel.calls
                  \o <<Call("CreatePackage", Path), Call("FactoryCreateNew", sel.cls.key)>>)

\* parent_class when it is given as a string, else the empty FString
ParentClassOf(Params) ==
    IF TryGetStringField(Params, "parent_class")
    THEN GetStringField(Params, "parent_class") ELSE <<>>

\* From "Check if blueprint already exists" on
CreateNamed(E, Params, o, BlueprintName, Path) ==
    IF DoesAssetExist(E, Path)
    THEN Return("HandleCreateBlueprint", E,
                CreateErrorResponse(JPrintf("Blueprint already exists: %s", BlueprintName)),
                <<Call("DoesAssetExist", Path)>>)
    ELSE CreateFromFactory(E, o, BlueprintName, Path, ToLower(Path),
                           SelectParentClass(E, ParentClassOf(Params)))

CreateNamedOverwrites(E, Params, o, BlueprintName, Path) ==
    CreateFromFactory(E, o, BlueprintName, Path, ToLower(Path),
                      SelectParentClass(E, ParentClassOf(Params)))

HandleCreateBlueprintOverwrites(E, Params, o) ==
    IF ~TryGetStringField(Params, "name")
    THEN Return("HandleCreateBlueprint", E,
                CreateErrorResponse(JText("Missing 'name' parameter")), <<>>)
    ELSE CreateNamedOverwrites(E, Params, o, GetStringField(Params, "name"),
                               PackagePath \o GetStringField(Params, "name"))

HandleCreateBlueprint(E, Params, o) ==
    IF ~TryGetStringField(Params, "name")
    THEN Return("HandleCreateBlueprint", E,
                CreateErrorResponse(JText("Missing 'name' parameter")), <<>>)
    ELSE CreateNamed(E, Params, o, GetStringField(Params, "name"),
                     PackagePath \o GetStringField(Params, "name"))

(***************************************************************************)
(* Construction-script nodes and their component templates.                *)
(***************************************************************************)
NullMaterial == [path |-> <<>>, dyn |-> FALSE, param |-> <<>>, color |-> <<>>]

MaterialAsset(Path) == [path |-> ToLower(Path), dyn |-> FALSE, param |-> <<>>, color |-> <<>>]

\* UMaterialInstanceDynamic::Create(Parent, Outer) with SetVectorParameterValue
DynamicMaterial(Parent, ParameterName, Color) ==
    [path |-> Parent.path, dyn |-> TRUE, param |-> ParameterName, color |-> Color]

UnitScale == <<1, 1, 1>>

\* USimpleConstructionScript::CreateNode(Class, Name): a node with a default template
CreateNode(ComponentClass, ComponentName) ==
    [comp |-> ComponentClass.comp, name |-> ComponentName, cls |-> ComponentClass.key,
     loc |-> ZeroVector, rot |-> ZeroVector, scale |-> UnitScale,
     simulate |-> FALSE, mass |-> <<>>, linearDamping |-> 0, angularDamping |-> 0,
     mesh |-> <<>>, materials |-> <<>>]

\* Cast<USceneComponent>, Cast<UPrimitiveComponent>, Cast<UStaticMeshComponent> of a
\* node's ComponentTemplate succeed from these depths of the component hierarchy.
IsActorComponent(c) == c.comp >= 1

IsSceneComponent(c) == c.comp >= 2

IsPrimitiveComponent(c) == c.comp >= 3

IsStaticMeshComponent(c) == c.comp >= 4

\* The least index of a set of indices, 0 when there is none
FirstIndex(hits) == IF hits = {} THEN 0 ELSE CHOOSE i \in hits : \A j \in hits : i <= j

\* The "Find the component" loop: the index of the first node whose variable name
\* is ComponentName, 0 when there is none.
FindComponentNode(Blueprint, ComponentName) ==
    FirstIndex({i \in 1..Len(Blueprint.nodes) :
                   FStringEq(Blueprint.nodes[i].name, ComponentName)})

\* The sections (material slots) of LOD 0 of a static mesh asset
NumSections(E, MeshPath) ==
    LET found == {a \in E.assets : a.path = MeshPath /\ a.kind = "StaticMesh"}
    IN  IF found = {} THEN 0 ELSE (CHOOSE a \in found : TRUE).sections

\* UStaticMeshComponent::GetMaterial(Slot): the override, else the mesh's own
\* material of that slot, else null.  UPrimitiveComponent::GetMaterial is null.
GetMaterial(E, Component, Slot) ==
    IF ~IsStaticMeshComponent(Component) THEN NullMaterial
    ELSE IF Slot >= 0 /\ Slot < Len(Component.materials)
            /\ Component.materials[Slot + 1] # NullMaterial
    THEN Component.materials[Slot + 1]
    ELSE IF Component.mesh # <<>> /\ Slot >= 0 /\ Slot < NumSections(E, Component.mesh[1])
    THEN MaterialAsset(WorldGridMaterial)
    ELSE NullMaterial

\* UMeshComponent::SetMaterial(Slot, Material): the override array grows to the slot;
\* a negative slot changes nothing.  UPrimitiveComponent::SetMaterial does nothing.
SetMaterial(Component, Slot, Material) ==
    IF ~IsStaticMeshComponent(Component) \/ Slot < 0 THEN Component
    ELSE [Component EXCEPT !.materials =
            [i \in 1..(IF Len(@) > Slot + 1 THEN Len(@) ELSE Slot + 1) |->
               IF i = Slot + 1 THEN Material
               ELSE IF i <= Len(@) THEN @[i] ELSE NullMaterial]]

\* FBlueprintEditorUtils::MarkBlueprintAsModified
MarkBlueprintAsModified(E, bp) ==
    [E EXCEPT !.blueprints[bp].status = "BS_Dirty", !.dirty = @ \cup {bp}]

\* FKismetEditorUtilities::CompileBlueprint
CompileBlueprint(E, bp) ==
    [E EXCEPT !.blueprints[bp].status = "BS_UpToDate", !.blueprints[bp].gen = TRUE]

\* The material_slot parameter (default 0)
MaterialSlotOf(Params) ==
    IF HasField(Params, "material_slot") THEN Params["material_slot"].n ELSE 0

(***************************************************************************)
(* HandleAddComponentToBlueprint                                           *)
(***************************************************************************)
\* The "dynamically find the component class by name" block: [cls, calls], the
\* class found (none: the empty set) and the FindObject calls made, in order.
\* One more FindObject, after those of r
FindObjectAfter(E, r, Name) ==
    [calls |-> Append(r.calls, Call("FindObject", Name)), cls |-> FindObject(E, Name)]

\* "Try to find the class with exact name first"
FindExact(E, ComponentType) ==
    [calls |-> <<Call("FindObject", ComponentType)>>, cls |-> FindObject(E, ComponentType)]

\* "If not found, try with "Component" suffix"
TryWithSuffix(E, ComponentType, r) ==
    IF r.cls = {} /\ ~EndsWith(ComponentType, TextComponent)
    THEN FindObjectAfter(E, r, ComponentType \o TextComponent)
    ELSE r

\* "Try with both prefix and suffix"
TryWithBoth(E, ComponentType, r) ==
    IF r.cls = {} /\ ~EndsWith(ComponentType, TextComponent)
    THEN FindObjectAfter(E, r, TextU \o ComponentType \o TextComponent)
    ELSE r

\* "If still not found, try with "U" prefix"
TryWithPrefix(E, ComponentType, r) ==
    IF r.cls = {} /\ ~StartsWith(ComponentType, TextU)
    THEN TryWithBoth(E, ComponentType, FindObjectAfter(E, r, TextU \o ComponentType))
    ELSE r

\* The same tries with the prefix tried before the suffix
TryWithPrefixOnly(E, ComponentType, r) ==
    IF r.cls = {} /\ ~StartsWith(ComponentType, TextU)
    THEN FindObjectAfter(E, r, TextU \o ComponentType)
    ELSE r

ResolveComponentClassPrefixFirst(E, ComponentType) ==
    TryWithBoth(E, ComponentType,
        TryWithSuffix(E, ComponentType,
            TryWithPrefixOnly(E, ComponentType, FindExact(E, ComponentType))))

ResolveComponentClass(E, ComponentType) ==
    TryWithPrefix(E, ComponentType,
        TryWithSuffix(E, ComponentType, FindExact(E, ComponentType)))

\* A variant that sets the location on the template of any component
SetRelativeLocationOfAny(Node, Params) ==
    IF HasField(Params, "location")
    THEN [Node EXCEPT !.loc = GetVectorFromJson(Params, "location")] ELSE Node

\* "Set transform if provided", on the template of a scene component
SetRelativeLocation(Node, Params) ==
    IF IsSceneComponent(Node) /\ HasField(Params, "location")
    THEN [Node EXCEPT !.loc = GetVectorFromJson(Params, "location")] ELSE Node

SetRelativeRotation(Node, Params) ==
    IF IsSceneComponent(Node) /\ HasField(Params, "rotation")
    THEN [Node EXCEPT !.rot = GetVectorFromJson(Params, "rotation")] ELSE Node

SetRelativeScale3D(Node, Params) ==
    IF IsSceneComponent(Node) /\ HasField(Params, "scale")
    THEN [Node EXCEPT !.scale = GetVectorFromJson(Params, "scale")] ELSE Node

\* USimpleConstructionScript::AddNode
AddNode(E, bp, NewNode) == [E EXCEPT !.blueprints[bp].nodes = Append(@, NewNode)]

\* A variant that leaves the created node in the blueprint when it reports failure
AddComponentOfClassKeepsNode(E, Params, o, bp, ComponentType, ComponentName, ComponentClass, log) ==
    IF ~E.blueprints[bp].scs
    THEN NullDereference("HandleAddComponentToBlueprint", E, log)
    ELSE Return("HandleAddComponentToBlueprint",
                AddNode(E, bp, CreateNode(ComponentClass, ComponentName)),
                CreateErrorResponse(JText("Failed to add component to blueprint")),
                Append(log, Call("CreateNode", ComponentName)))

\* From "Add the component to the blueprint" on, with the class found
AddComponentOfClass(E, Params, o, bp, ComponentType, ComponentName, ComponentClass, log) ==
    IF ~E.blueprints[bp].scs
    THEN NullDereference("HandleAddComponentToBlueprint", E, log)
    ELSE IF ~o.nodeOk
    THEN Return("HandleAddComponentToBlueprint", E,
                CreateErrorResponse(JText("Failed to add component to blueprint")),
                Append(log, Call("CreateNode", ComponentName)))
    ELSE Return("HandleAddComponentToBlueprint",
                CompileBlueprint(
                    AddNode(E, bp,
                        SetRelativeScale3D(
                            SetRelativeRotation(
                                SetRelativeLocation(CreateNode(ComponentClass, ComponentName),
                                                    Params),
                                Params),
                            Params)),
                    bp),
                [component_name |-> JStr(ComponentName), component_type |-> JStr(ComponentType)],
                log \o <<Call("CreateNode", ComponentName), Call("AddNode", ComponentName),
                         Call("CompileBlueprint", bp)>>)

\* "Verify that the class is a valid component type", res the class resolution
AddComponentResolved(E, Params, o, bp, ComponentType, ComponentName, res, log) ==
    IF res.cls = {} \/ \A c \in res.cls : ~IsActorComponent(c)
    THEN Return("HandleAddComponentToBlueprint", E,
                CreateErrorResponse(JPrintf("Unknown component type: %s", ComponentType)), log)
    ELSE AddComponentOfClass(E, Params, o, bp, ComponentType, ComponentName,
                             CHOOSE c \in res.cls : TRUE, log)

AddComponentTo(E, Params, o, BlueprintName, ComponentType, ComponentName, Blueprint, res) ==
    IF Blueprint = <<>>
    THEN Return("HandleAddComponentToBlueprint", E,
                CreateErrorResponse(JPrintf("Blueprint not found: %s", BlueprintName)),
                <<Call("FindBlueprint", BlueprintName)>>)
    ELSE AddComponentResolved(E, Params, o, Blueprint[1], ComponentType, ComponentName, res,
                              <<Call("FindBlueprint", BlueprintName)>> \o res.calls)

HandleAddComponentToBlueprint(E, Params, o) ==
    IF ~TryGetStringField(Params, "blueprint_name")
    THEN Return("HandleAddComponentToBlueprint", E,
                CreateErrorResponse(JText("Missing 'blueprint_name' parameter")), <<>>)
    ELSE IF ~TryGetStringField(Params, "component_type")
    THEN Return("HandleAddComponentToBlueprint", E,
                CreateErrorResponse(JText("Missing 'type' parameter")), <<>>)
    ELSE IF ~TryGetStringField(Params, "component_name")
    THEN Return("HandleAddComponentToBlueprint", E,
                CreateErrorResponse(JText("Missing 'name' parameter")), <<>>)
    ELSE AddComponentTo(E, Params, o, GetStringField(Params, "blueprint_name"),
                        GetStringField(Params, "component_type"),
                        GetStringField(Params, "component_name"),
                        FindBlueprint(E, GetStringField(Params, "blueprint_name")),
                        ResolveComponentClass(E, GetStringField(Params, "component_type")))

(***************************************************************************)
(* HandleSetPhysicsProperties                                              *)
(***************************************************************************)
\* "Set physics properties": each one only when its field is given
SetSimulatePhysics(Node, Params) ==
    IF HasField(Params, "simulate_physics")
    THEN [Node EXCEPT !.simulate = Params["simulate_physics"].b] ELSE Node

\* A variant that resets the mass override when no mass is given
SetMassOverrideInKgAlways(Node, Params) ==
    [Node EXCEPT !.mass = <<IF HasField(Params, "mass") THEN Params["mass"].n ELSE 0>>]

SetMassOverrideInKg(Node, Params) ==
    IF HasField(Params, "mass") THEN [Node EXCEPT !.mass = <<Params["mass"].n>>] ELSE Node

SetLinearDamping(Node, Params) ==
    IF HasField(Params, "linear_damping")
    THEN [Node EXCEPT !.linearDamping = Params["linear_damping"].n] ELSE Node

SetAngularDamping(Node, Params) ==
    IF HasField(Params, "angular_damping")
    THEN [Node EXCEPT !.angularDamping = Params["angular_damping"].n] ELSE Node

\* The setter calls made, in the order of the source
PhysicsCalls(Params, ComponentName) ==
    (IF HasField(Params, "simulate_physics")
     THEN <<Call("SetSimulatePhysics", ComponentName)>> ELSE <<>>)
    \o (IF HasField(Params, "mass")
        THEN <<Call("SetMassOverrideInKg", ComponentName)>> ELSE <<>>)
    \o (IF HasField(Params, "linear_damping")
        THEN <<Call("SetLinearDamping", ComponentName)>> ELSE <<>>)
    \o (IF HasField(Params, "angular_damping")
        THEN <<Call("SetAngularDamping", ComponentName)>> ELSE <<>>)

\* The node i of blueprint bp replaced
WithNode(E, bp, i, Node) == [E EXCEPT !.blueprints[bp].nodes[i] = Node]

\* From the component loop on: i the index of the node found (0: none)
SetPhysicsOfNode(E, Params, bp, ComponentName, i, log) ==
    IF i = 0
    THEN Return("HandleSetPhysicsProperties", E,
                CreateErrorResponse(JPrintf("Component not found: %s", ComponentName)), log)
    ELSE IF ~IsPrimitiveComponent(E.blueprints[bp].nodes[i])
    THEN Return("HandleSetPhysicsProperties", E,
                CreateErrorResponse(JText("Component is not a primitive component")), log)
    ELSE Return("HandleSetPhysicsProperties",
                MarkBlueprintAsModified(
                    WithNode(E, bp, i,
                        SetAngularDamping(
                            SetLinearDamping(
                                SetMassOverrideInKg(
                                    SetSimulatePhysics(E.blueprints[bp].nodes[i], Params),
                                    Params),
                                Params),
                            Params)),
                    bp),
                [component |-> JStr(ComponentName)],
                log \o PhysicsCalls(Params, ComponentName)
                    \o <<Call("MarkBlueprintAsModified", bp)>>)

SetPhysicsOn(E, Params, BlueprintName, ComponentName, Blueprint) ==
    IF Blueprint = <<>>
    THEN Return("HandleSetPhysicsProperties", E,
                CreateErrorResponse(JPrintf("Blueprint not found: %s", BlueprintName)),
                <<Call("FindBlueprint", BlueprintName)>>)
    ELSE IF ~E.blueprints[Blueprint[1]].scs
    THEN NullDereference("HandleSetPhysicsProperties", E,
                         <<Call("FindBlueprint", BlueprintName)>>)
    ELSE SetPhysicsOfNode(E, Params, Blueprint[1], ComponentName,
                          FindComponentNode(E.blueprints[Blueprint[1]], ComponentName),
                          <<Call("FindBlueprint", BlueprintName),
                            Call("GetAllNodes", Blueprint[1])>>)

HandleSetPhysicsProperties(E, Params, o) ==
    IF ~TryGetStringField(Params, "blueprint_name")
    THEN Return("HandleSetPhysicsProperties", E,
                CreateErrorResponse(JText("Missing 'blueprint_name' parameter")), <<>>)
    ELSE IF ~TryGetStringField(Params, "component_name")
    THEN Return("HandleSetPhysicsProperties", E,
                CreateErrorResponse(JText("Missing 'component_name' parameter")), <<>>)
    ELSE SetPhysicsOn(E, Params, GetStringField(Params, "blueprint_name"),
                      GetStringField(Params, "component_name"),
                      FindBlueprint(E, GetStringField(Params, "blueprint_name")))

(***************************************************************************)
(* HandleCompileBlueprint                                                  *)
(***************************************************************************)
CompileFound(E, BlueprintName, Blueprint) ==
    IF Blueprint = <<>>
    THEN Return("HandleCompileBlueprint", E,
                CreateErrorResponse(JPrintf("Blueprint not found: %s", BlueprintName)),
                <<Call("FindBlueprint", BlueprintName)>>)
    ELSE Return("HandleCompileBlueprint", CompileBlueprint(E, Blueprint[1]),
                [name |-> JStr(BlueprintName), compiled |-> JBool(TRUE)],
                <<Call("FindBlueprint", BlueprintName),
                  Call("CompileBlueprint", Blueprint[1])>>)

\* A variant that looks the blueprint up before it checks the parameter
HandleCompileBlueprintLooksUpFirst(E, Params, o) ==
    IF ~TryGetStringField(Params, "blueprint_name")
    THEN Return("HandleCompileBlueprint", E,
                CreateErrorResponse(JText("Missing 'blueprint_name' parameter")),
                <<Call("FindBlueprint", <<>>)>>)
    ELSE CompileFound(E, GetStringField(Params, "blueprint_name"),
                      FindBlueprint(E, GetStringField(Params, "blueprint_name")))

HandleCompileBlueprint(E, Params, o) ==
    IF ~TryGetStringField(Params, "blueprint_name")
    THEN Return("HandleCompileBlueprint", E,
                CreateErrorResponse(JText("Missing 'blueprint_name' parameter")), <<>>)
    ELSE CompileFound(E, GetStringField(Params, "blueprint_name"),
                      FindBlueprint(E, GetStringField(Params, "blueprint_name")))

(***************************************************************************)
(* HandleSpawnBlueprintActor                                               *)
(***************************************************************************)
Digits == <<"0", "1", "2", "3", "4", "5", "6", "7", "8", "9">>

TextGeneratedSuffix == <<"_", "C", "_">>

\* The names <base><n> that actors of the world carry
UsedNumbers(E, base) ==
    {k \in 0..9 : \E j \in 1..Len(E.actors) : E.actors[j].name = base \o <<Digits[k + 1]>>}

FirstUnused(used) == CHOOSE k \in 0..9 : k \notin used /\ \A m \in 0..9 : m < k => m \in used

NumberedName(base, n) == base \o <<Digits[n + 1]>>

UniqueNameFrom(E, base) == NumberedName(base, FirstUnused(UsedNumbers(E, base)))

\* The unique object name the engine gives a spawned actor: <Blueprint>_C_<n>
MakeUniqueObjectName(E, Blueprint) ==
    UniqueNameFrom(E, ToLower(Blueprint.name \o TextGeneratedSuffix))

\* The component an actor gets from a construction-script node
ComponentOfNode(Node) ==
    [comp |-> Node.comp, name |-> Node.name, mesh |-> Node.mesh, materials |-> Node.materials]

\* The static mesh components an actor of the blueprint's class is built with
RECURSIVE MeshComponentsFrom(_, _)
MeshComponentsFrom(nodes, i) ==
    IF i > Len(nodes) THEN <<>>
    ELSE (IF IsStaticMeshComponent(nodes[i]) THEN <<ComponentOfNode(nodes[i])>> ELSE <<>>)
         \o MeshComponentsFrom(nodes, i + 1)

MeshComponentsOf(Blueprint) == MeshComponentsFrom(Blueprint.nodes, 1)

\* FEpicUnrealMCPCommonUtils::ActorToJsonObject
ActorToJsonObject(Actor) ==
    [name |-> JStr(Actor.name), scale |-> JArr([i \in 1..3 |-> JNum(1)]),
     class |-> JStr(Actor.cls),
     location |-> JArr([i \in 1..3 |-> JNum(Actor.loc[i])]),
     rotation |-> JArr([i \in 1..3 |-> JNum(Actor.rot[i])])]

\* The location / rotation parameter, zero when absent
VectorOrZero(Params, f) ==
    IF HasField(Params, f) THEN GetVectorFromJson(Params, f) ELSE ZeroVector

\* A variant that spawns every actor at the origin
SpawnActorAtOrigin(E, Params, bp, ActorName) ==
    [name |-> MakeUniqueObjectName(E, E.blueprints[bp]), cls |-> bp,
     loc |-> ZeroVector, rot |-> VectorOrZero(Params, "rotation"), label |-> ActorName,
     comps |-> MeshComponentsOf(E.blueprints[bp])]

\* UWorld::SpawnActor<AActor>(GeneratedClass, Transform) with SetActorLabel
SpawnActor(E, Params, bp, ActorName) ==
    [name |-> MakeUniqueObjectName(E, E.blueprints[bp]), cls |-> bp,
     loc |-> VectorOrZero(Params, "location"), rot |-> VectorOrZero(Params, "rotation"),
     label |-> ActorName,
     comps |-> MeshComponentsOf(E.blueprints[bp])]

SpawnedActor(E, NewActor, log) ==
    Return("HandleSpawnBlueprintActor", [E EXCEPT !.actors = Append(@, NewActor)],
           ActorToJsonObject(NewActor), log)

\* "Spawn the actor": SpawnActor gives null for no class, a class that is no
\* actor class, or when the engine refuses
SpawnInWorld(E, Params, o, bp, ActorName, log) ==
    IF ~o.worldOk
    THEN Return("HandleSpawnBlueprintActor", E,
                CreateErrorResponse(JText("Failed to get editor world")),
                Append(log, Call("GetEditorWorld", <<>>)))
    ELSE IF E.blueprints[bp].gen /\ E.blueprints[bp].isActor /\ o.spawnOk
    THEN SpawnedActor(E, SpawnActor(E, Params, bp, ActorName),
                      log \o <<Call("GetEditorWorld", <<>>), Call("SpawnActor", bp),
                               Call("SetActorLabel", ActorName)>>)
    ELSE Return("HandleSpawnBlueprintActor", E,
                CreateErrorResponse(JText("Failed to spawn blueprint actor")),
                log \o <<Call("GetEditorWorld", <<>>), Call("SpawnActor", bp)>>)

SpawnFound(E, Params, o, BlueprintName, ActorName, Blueprint) ==
    IF Blueprint = <<>>
    THEN Return("HandleSpawnBlueprintActor", E,
                CreateErrorResponse(JPrintf("Blueprint not found: %s", BlueprintName)),
                <<Call("FindBlueprint", BlueprintName)>>)
    ELSE SpawnInWorld(E, Params, o, Blueprint[1], ActorName,
                      <<Call("FindBlueprint", BlueprintName)>>)

HandleSpawnBlueprintActor(E, Params, o) ==
    IF ~TryGetStringField(Params, "blueprint_name")
    THEN Return("HandleSpawnBlueprintActor", E,
                CreateErrorResponse(JText("Missing 'blueprint_name' parameter")), <<>>)
    ELSE IF ~TryGetStringField(Params, "actor_name")
    THEN Return("HandleSpawnBlueprintActor", E,
                CreateErrorResponse(JText("Missing 'actor_name' parameter")), <<>>)
    ELSE SpawnFound(E, Params, o, GetStringField(Params, "blueprint_name"),
                    GetStringField(Params, "actor_name"),
                    FindBlueprint(E, GetStringField(Params, "blueprint_name")))

(***************************************************************************)
(* HandleSetStaticMeshProperties                                           *)
(***************************************************************************)
\* Cast<UStaticMesh> / Cast<UMaterialInterface> of a loaded asset
IsStaticMesh(found) == \E a \in found : a.kind = "StaticMesh"

IsMaterial(found) == \E a \in found : a.kind = "Material"

\* A variant that clears the mesh when the static_mesh given does not load
SetStaticMeshOrClear(E, Node, Params) ==
    IF HasField(Params, "static_mesh")
    THEN [Node EXCEPT !.mesh =
            IF IsStaticMesh(LoadAsset(E, GetStringField(Params, "static_mesh")))
            THEN <<ToLower(GetStringField(Params, "static_mesh"))>> ELSE <<>>]
    ELSE Node

\* "Set static mesh properties": the mesh when static_mesh is given and loads
SetStaticMesh(E, Node, Params) ==
    IF HasField(Params, "static_mesh")
       /\ IsStaticMesh(LoadAsset(E, GetStringField(Params, "static_mesh")))
    THEN [Node EXCEPT !.mesh = <<ToLower(GetStringField(Params, "static_mesh"))>>]
    ELSE Node

\* the material of slot 0 when material is given and loads
SetMeshMaterial(E, Node, Params) ==
    IF HasField(Params, "material")
       /\ IsMaterial(LoadAsset(E, GetStringField(Params, "material")))
    THEN SetMaterial(Node, 0, MaterialAsset(GetStringField(Params, "material")))
    ELSE Node

\* The editor calls of one optional asset field: the load and, if it loaded, the setter
AssetCalls(Params, f, loaded, setter, ComponentName) ==
    IF HasField(Params, f)
    THEN <<Call("LoadAsset", GetStringField(Params, f))>>
         \o (IF loaded THEN <<Call(setter, ComponentName)>> ELSE <<>>)
    ELSE <<>>

StaticMeshCalls(E, Params, ComponentName) ==
    AssetCalls(Params, "static_mesh",
               HasField(Params, "static_mesh")
                 /\ IsStaticMesh(LoadAsset(E, GetStringField(Params, "static_mesh"))),
               "SetStaticMesh", ComponentName)
    \o AssetCalls(Params, "material",
                  HasField(Params, "material")
                    /\ IsMaterial(LoadAsset(E, GetStringField(Params, "material"))),
                  "SetMaterial", ComponentName)

SetStaticMeshOfNode(E, Params, bp, ComponentName, i, log) ==
    IF i = 0
    THEN Return("HandleSetStaticMeshProperties", E,
                CreateErrorResponse(JPrintf("Component not found: %s", ComponentName)), log)
    ELSE IF ~IsStaticMeshComponent(E.blueprints[bp].nodes[i])
    THEN Return("HandleSetStaticMeshProperties", E,
                CreateErrorResponse(JText("Component is not a static mesh component")), log)
    ELSE Return("HandleSetStaticMeshProperties",
                MarkBlueprintAsModified(
                    WithNode(E, bp, i,
                        SetMeshMaterial(E,
                            SetStaticMesh(E, E.blueprints[bp].nodes[i], Params), Params)),
                    bp),
                [component |-> JStr(ComponentName)],
                log \o StaticMeshCalls(E, Params, ComponentName)
                    \o <<Call("MarkBlueprintAsModified", bp)>>)

SetStaticMeshOn(E, Params, BlueprintName, ComponentName, Blueprint) ==
    IF Blueprint = <<>>
    THEN Return("HandleSetStaticMeshProperties", E,
                CreateErrorResponse(JPrintf("Blueprint not found: %s", BlueprintName)),
                <<Call("FindBlueprint", BlueprintName)>>)
    ELSE IF ~E.blueprints[Blueprint[1]].scs
    THEN NullDereference("HandleSetStaticMeshProperties", E,
                         <<Call("FindBlueprint", BlueprintName)>>)
    ELSE SetStaticMeshOfNode(E, Params, Blueprint[1], ComponentName,
                             FindComponentNode(E.blueprints[Blueprint[1]], ComponentName),
                             <<Call("FindBlueprint", BlueprintName),
                               Call("GetAllNodes", Blueprint[1])>>)

HandleSetStaticMeshProperties(E, Params, o) ==
    IF ~TryGetStringField(Params, "blueprint_name")
    THEN Return("HandleSetStaticMeshProperties", E,
                CreateErrorResponse(JText("Missing 'blueprint_name' parameter")), <<>>)
    ELSE IF ~TryGetStringField(Params, "component_name")
    THEN Return("HandleSetStaticMeshProperties", E,
                CreateErrorResponse(JText("Missing 'component_name' parameter")), <<>>)
    ELSE SetStaticMeshOn(E, Params, GetStringField(Params, "blueprint_name"),
                         GetStringField(Params, "component_name"),
                         FindBlueprint(E, GetStringField(Params, "blueprint_name")))

(***************************************************************************)
(* HandleSetMeshMaterialColor                                              *)
(***************************************************************************)
\* FJsonValue::AsNumber: the number, 1/0 for a boolean, 0 for what is no number
AsNumber(v) == IF v.t = "Number" THEN v.n
               ELSE IF v.t = "Boolean" /\ v.b THEN 1 ELSE 0

\* The numbers of a color.  A JSON number is a double, and ColorArray and
\* FLinearColor hold floats.  The model counts a color component in steps of the
\* doubles, One of them standing for 1.0, and has every FloatStep-th double be a
\* float, so that a double narrowed to a float is rounded to the nearest float, as
\* the engine rounds every double that has more significant bits than a float
\* holds (0.1, say).
One == 4

FloatStep == 2

\* The conversion of a double to float: the nearest float, and of two equally near
\* the one with the even significand
ToFloat(x) ==
    IF 2 * (x % FloatStep) < FloatStep THEN (x \div FloatStep) * FloatStep
    ELSE IF 2 * (x % FloatStep) > FloatStep THEN ((x \div FloatStep) + 1) * FloatStep
    ELSE IF (x \div FloatStep) % 2 = 0 THEN (x \div FloatStep) * FloatStep
    ELSE ((x \div FloatStep) + 1) * FloatStep

\* A variant that clamps from below only
ClampBelowOnly(x) == IF x < 0 THEN 0 ELSE x

\* FMath::Clamp(Value, 0.0f, 1.0f)
Clamp01(x) == IF x < 0 THEN 0 ELSE IF x > One THEN One ELSE x

TextBaseColor == <<"B","a","s","e","C","o","l","o","r">>

\* FLinearColor Color(ColorArray[0..3]) of the clamped numbers of the color array,
\* which ColorArray, a TArray<float>, holds as floats
ColorOf(ColorJsonArray) == [k \in 1..4 |-> ToFloat(Clamp01(AsNumber(ColorJsonArray[k])))]

\* parameter_name when given as a string, else "BaseColor"
ParameterNameOf(Params) ==
    IF TryGetStringField(Params, "parameter_name")
    THEN GetStringField(Params, "parameter_name") ELSE TextBaseColor

\* "Get or create material": [mat, calls, error] - the material to instance (none:
\* the empty sequence), the editor calls made, the error returned when none
MaterialAtPath(E, MaterialPath) ==
    [error |-> JPrintf("Failed to load material: %s", MaterialPath),
     calls |-> <<Call("LoadAsset", MaterialPath)>>,
     mat |-> IF IsMaterial(LoadAsset(E, MaterialPath))
             THEN <<MaterialAsset(MaterialPath)>> ELSE <<>>]

ExistingOrDefaultMaterial(E, ComponentName, Existing) ==
    IF Existing # NullMaterial
    THEN [error |-> JText(""), calls |-> <<Call("GetMaterial", ComponentName)>>,
          mat |-> <<Existing>>]
    ELSE [error |-> JText("No material found on component and failed to load default material"),
          calls |-> <<Call("GetMaterial", ComponentName),
                      Call("LoadAsset", BasicShapeMaterial)>>,
          mat |-> IF IsMaterial(LoadAsset(E, BasicShapeMaterial))
                  THEN <<MaterialAsset(BasicShapeMaterial)>> ELSE <<>>]

GetOrCreateMaterial(E, Params, Node, ComponentName) ==
    IF TryGetStringField(Params, "material_path")
    THEN MaterialAtPath(E, GetStringField(Params, "material_path"))
    ELSE ExistingOrDefaultMaterial(E, ComponentName,
                                   GetMaterial(E, Node, MaterialSlotOf(Params)))

\* From "Create a dynamic material instance" on
ApplyColor(E, o, bp, ComponentName, i, log, Color, MaterialSlot, ParameterName, Material) ==
    IF ~o.dynOk
    THEN Return("HandleSetMeshMaterialColor", E,
                CreateErrorResponse(JText("Failed to create dynamic material instance")),
                Append(log, Call("UMaterialInstanceDynamic::Create", Material.path)))
    ELSE Return("HandleSetMeshMaterialColor",
                MarkBlueprintAsModified(
                    WithNode(E, bp, i,
                        SetMaterial(E.blueprints[bp].nodes[i], MaterialSlot,
                                    DynamicMaterial(Material, ParameterName, Color))),
                    bp),
                [success |-> JBool(TRUE), color |-> JArr([k \in 1..4 |-> JNum(Color[k])]),
                 component |-> JStr(ComponentName),
                 material_slot |-> JNum(MaterialSlot), parameter_name |-> JStr(ParameterName)],
                log \o <<Call("UMaterialInstanceDynamic::Create", Material.path),
                         Call("SetVectorParameterValue", ParameterName),
                         Call("SetMaterial", ComponentName),
                         Call("MarkBlueprintAsModified", bp)>>)

ColorWithMaterial(E, Params, o, bp, ComponentName, i, log, m) ==
    IF m.mat = <<>>
    THEN Return("HandleSetMeshMaterialColor", E, CreateErrorResponse(m.error),
                log \o m.calls)
    ELSE ApplyColor(E, o, bp, ComponentName, i, log \o m.calls,
                    ColorOf(Params["color"].a), MaterialSlotOf(Params),
                    ParameterNameOf(Params), m.mat[1])

SetColorOfNode(E, Params, o, bp, ComponentName, i, log) ==
    IF i = 0
    THEN Return("HandleSetMeshMaterialColor", E,
                CreateErrorResponse(JPrintf("Component not found: %s", ComponentName)), log)
    ELSE IF ~IsPrimitiveComponent(E.blueprints[bp].nodes[i])
    THEN Return("HandleSetMeshMaterialColor", E,
                CreateErrorResponse(JText("Component is not a primitive component")), log)
    ELSE IF ~(HasField(Params, "color") /\ Params["color"].t = "Array")
            \/ Len(Params["color"].a) # 4
    THEN Return("HandleSetMeshMaterialColor", E,
                CreateErrorResponse(
                    JText("'color' must be an array of 4 float values [R, G, B, A]")), log)
    ELSE ColorWithMaterial(E, Params, o, bp, ComponentName, i, log,
                           GetOrCreateMaterial(E, Params, E.blueprints[bp].nodes[i],
                                               ComponentName))

SetColorOn(E, Params, o, BlueprintName, ComponentName, Blueprint) ==
    IF Blueprint = <<>>
    THEN Return("HandleSetMeshMaterialColor", E,
                CreateErrorResponse(JPrintf("Blueprint not found: %s", BlueprintName)),
                <<Call("FindBlueprint", BlueprintName)>>)
    ELSE IF ~E.blueprints[Blueprint[1]].scs
    THEN NullDereference("HandleSetMeshMaterialColor", E,
                         <<Call("FindBlueprint", BlueprintName)>>)
    ELSE SetColorOfNode(E, Params, o, Blueprint[1], ComponentName,
                        FindComponentNode(E.blueprints[Blueprint[1]], ComponentName),
                        <<Call("FindBlueprint", BlueprintName),
                          Call("GetAllNodes", Blueprint[1])>>)

HandleSetMeshMaterialColor(E, Params, o) ==
    IF ~TryGetStringField(Params, "blueprint_name")
    THEN Return("HandleSetMeshMaterialColor", E,
                CreateErrorResponse(JText("Missing 'blueprint_name' parameter")), <<>>)
    ELSE IF ~TryGetStringField(Params, "component_name")
    THEN Return("HandleSetMeshMaterialColor", E,
                CreateErrorResponse(JText("Missing 'component_name' parameter")), <<>>)
    ELSE SetColorOn(E, Params, o, GetStringField(Params, "blueprint_name"),
                    GetStringField(Params, "component_name"),
                    FindBlueprint(E, GetStringField(Params, "blueprint_name")))

(***************************************************************************)
(* HandleGetAvailableMaterials                                             *)
(***************************************************************************)
\* A set of assets as an array, in the registry's (some fixed) order
RECURSIVE AssetArray(_)
AssetArray(S) ==
    IF S = {} THEN <<>>
    ELSE LET a == CHOOSE x \in S : TRUE IN <<a>> \o AssetArray(S \ {a})

\* search_path when given as a string, else ""
SearchPathOf(Params) ==
    IF TryGetStringField(Params, "search_path")
    THEN GetStringField(Params, "search_path") ELSE <<>>

\* "Ensure the path starts with /" and "ends with /"
WithLeadingSlash(SearchPath) ==
    IF ~StartsWith(SearchPath, TextSlash) THEN TextSlash \o SearchPath ELSE SearchPath

WithTrailingSlash(SearchPath) ==
    IF ~EndsWith(SearchPath, TextSlash) THEN SearchPath \o TextSlash ELSE SearchPath

\* The package path searched: the normalised search path, /Game/ when it is empty
SearchPathUsed(SearchPath) ==
    IF IsEmpty(SearchPath) THEN GamePath
    ELSE WithTrailingSlash(WithLeadingSlash(SearchPath))

\* AssetRegistry.GetAssets(Filter): the materials under the package paths
GetAssets(E, where, bIncludeEngineMaterials) ==
    {a \in E.assets :
        /\ a.kind = "Material"
        /\ \/ StartsWith(a.path, where)
           \/ bIncludeEngineMaterials /\ StartsWith(a.path, EnginePath)}

\* The manual search: the materials listed under the path that the registry
\* search has not found
ManualAssets(E, where, registry) ==
    {a \in E.assets :
        /\ StartsWith(a.path, where)
        /\ Contains(a.path, TextMaterial) /\ ~Contains(a.path, TextUasset)
        /\ a.kind = "Material"
        /\ a \notin registry}

AllMaterials(E, where, registry) ==
    AssetArray(registry) \o AssetArray(ManualAssets(E, where, registry))

MaterialsResponse(E, where, AssetDataArray) ==
    Return("HandleGetAvailableMaterials", E,
           [materials |-> JArr([k \in 1..Len(AssetDataArray) |-> JStr(AssetDataArray[k].path)]),
            count |-> JNum(Len(AssetDataArray)),
            search_path_used |-> JStr(where)],
           <<Call("GetAssets", where), Call("ListAssets", where)>>)

MaterialsUnder(E, where, bIncludeEngineMaterials) ==
    MaterialsResponse(E, where,
                      AllMaterials(E, where, GetAssets(E, where, bIncludeEngineMaterials)))

HandleGetAvailableMaterials(E, Params, o) ==
    MaterialsUnder(E, SearchPathUsed(SearchPathOf(Params)),
                   IF HasField(Params, "include_engine_materials")
                   THEN Params["include_engine_materials"].b ELSE TRUE)

(***************************************************************************)
(* HandleApplyMaterialToActor                                              *)
(***************************************************************************)
\* The "Find the actor" loop: the index of the first actor of that name, 0 if none
FindActor(E, ActorName) ==
    FirstIndex({j \in 1..Len(E.actors) : FStringEq(E.actors[j].name, ActorName)})

\* "Apply material to all mesh components"
SetMaterialOfAll(MeshComponents, MaterialSlot, Material) ==
    [k \in 1..Len(MeshComponents) |-> SetMaterial(MeshComponents[k], MaterialSlot, Material)]

ApplyToComponents(E, Params, ActorName, MaterialPath, j, log) ==
    IF Len(E.actors[j].comps) = 0
    THEN Return("HandleApplyMaterialToActor", E,
                CreateErrorResponse(JText("No mesh components found on actor")), log)
    ELSE Return("HandleApplyMaterialToActor",
                [E EXCEPT !.actors[j].comps =
                    SetMaterialOfAll(@, MaterialSlotOf(Params), MaterialAsset(MaterialPath))],
                [success |-> JBool(TRUE), material_slot |-> JNum(MaterialSlotOf(Params)),
                 actor_name |-> JStr(ActorName), material_path |-> JStr(MaterialPath)],
                log \o [k \in 1..Len(E.actors[j].comps) |->
                           Call("SetMaterial", E.actors[j].comps[k].name)])

ApplyToActorFound(E, Params, ActorName, MaterialPath, j) ==
    IF j = 0
    THEN Return("HandleApplyMaterialToActor", E,
                CreateErrorResponse(JPrintf("Actor not found: %s", ActorName)),
                <<Call("GetEditorWorld", <<>>), Call("GetAllActorsOfClass", <<>>)>>)
    ELSE IF ~IsMaterial(LoadAsset(E, MaterialPath))
    THEN Return("HandleApplyMaterialToActor", E,
                CreateErrorResponse(JPrintf("Failed to load material: %s", MaterialPath)),
                <<Call("GetEditorWorld", <<>>), Call("GetAllActorsOfClass", <<>>),
                  Call("LoadAsset", MaterialPath)>>)
    ELSE ApplyToComponents(E, Params, ActorName, MaterialPath, j,
                           <<Call("GetEditorWorld", <<>>), Call("GetAllActorsOfClass", <<>>),
                             Call("LoadAsset", MaterialPath)>>)

HandleApplyMaterialToActor(E, Params, o) ==
    IF ~TryGetStringField(Params, "actor_name")
    THEN Return("HandleApplyMaterialToActor", E,
                CreateErrorResponse(JText("Missing 'actor_name' parameter")), <<>>)
    ELSE IF ~TryGetStringField(Params, "material_path")
    THEN Return("HandleApplyMaterialToActor", E,
                CreateErrorResponse(JText("Missing 'material_path' parameter")), <<>>)
    ELSE IF ~o.worldOk
    THEN Return("HandleApplyMaterialToActor", E,
                CreateErrorResponse(JText("Failed to get editor world")),
                <<Call("GetEditorWorld", <<>>)>>)
    ELSE ApplyToActorFound(E, Params, GetStringField(Params, "actor_name"),
                           GetStringField(Params, "material_path"),
                           FindActor(E, GetStringField(Params, "actor_name")))

(***************************************************************************)
(* HandleApplyMaterialToBlueprint                                          *)
(***************************************************************************)
ApplyToNode(E, Params, BlueprintName, ComponentName, MaterialPath, bp, i, log) ==
    IF i = 0
    THEN Return("HandleApplyMaterialToBlueprint", E,
                CreateErrorResponse(JPrintf("Component not found: %s", ComponentName)), log)
    ELSE IF ~IsPrimitiveComponent(E.blueprints[bp].nodes[i])
    THEN Return("HandleApplyMaterialToBlueprint", E,
                CreateErrorResponse(JText("Component is not a primitive component")), log)
    ELSE IF ~IsMaterial(LoadAsset(E, MaterialPath))
    THEN Return("HandleApplyMaterialToBlueprint", E,
                CreateErrorResponse(JPrintf("Failed to load material: %s", MaterialPath)),
                Append(log, Call("LoadAsset", MaterialPath)))
    ELSE Return("HandleApplyMaterialToBlueprint",
                MarkBlueprintAsModified(
                    WithNode(E, bp, i,
                        SetMaterial(E.blueprints[bp].nodes[i], MaterialSlotOf(Params),
                                    MaterialAsset(MaterialPath))),
                    bp),
                [success |-> JBool(TRUE), component_name |-> JStr(ComponentName),
                 material_slot |-> JNum(MaterialSlotOf(Params)),
                 material_path |-> JStr(MaterialPath), blueprint_name |-> JStr(BlueprintName)],
                log \o <<Call("LoadAsset", MaterialPath), Call("SetMaterial", ComponentName),
                         Call("MarkBlueprintAsModified", bp)>>)

ApplyToBlueprintFound(E, Params, BlueprintName, ComponentName, MaterialPath, Blueprint) ==
    IF Blueprint = <<>>
    THEN Return("HandleApplyMaterialToBlueprint", E,
                CreateErrorResponse(JPrintf("Blueprint not found: %s", BlueprintName)),
                <<Call("FindBlueprint", BlueprintName)>>)
    ELSE IF ~E.blueprints[Blueprint[1]].scs
    THEN NullDereference("HandleApplyMaterialToBlueprint", E,
                         <<Call("FindBlueprint", BlueprintName)>>)
    ELSE ApplyToNode(E, Params, BlueprintName, ComponentName, MaterialPath, Blueprint[1],
                     FindComponentNode(E.blueprints[Blueprint[1]], ComponentName),
                     <<Call("FindBlueprint", BlueprintName),
                       Call("GetAllNodes", Blueprint[1])>>)

HandleApplyMaterialToBlueprint(E, Params, o) ==
    IF ~TryGetStringField(Params, "blueprint_name")
    THEN Return("HandleApplyMaterialToBlueprint", E,
                CreateErrorResponse(JText("Missing 'blueprint_name' parameter")), <<>>)
    ELSE IF ~TryGetStringField(Params, "component_name")
    THEN Return("HandleApplyMaterialToBlueprint", E,
                CreateErrorResponse(JText("Missing 'component_name' parameter")), <<>>)
    ELSE IF ~TryGetStringField(Params, "material_path")
    THEN Return("HandleApplyMaterialToBlueprint", E,
                CreateErrorResponse(JText("Missing 'material_path' parameter")), <<>>)
    ELSE ApplyToBlueprintFound(E, Params, GetStringField(Params, "blueprint_name"),
                               GetStringField(Params, "component_name"),
                               GetStringField(Params, "material_path"),
                               FindBlueprint(E, GetStringField(Params, "blueprint_name")))

(***************************************************************************)
(* HandleGetActorMaterialInfo, HandleGetBlueprintMaterialInfo              *)
(***************************************************************************)
\* The material_slots entries of one component: one material path per slot
\* ("" for an empty slot)
SlotInfo(E, Component, NumMaterials) ==
    [k \in 1..NumMaterials |-> JStr(GetMaterial(E, Component, k - 1).path)]

\* The larger of two numbers
Max(a, b) == IF a > b THEN a ELSE b

\* The material slots of the component's mesh (none without a mesh)
MeshSections(E, Component) ==
    IF Component.mesh = <<>> THEN 0 ELSE NumSections(E, Component.mesh[1])

\* UStaticMeshComponent::GetNumMaterials
GetNumMaterials(E, Component) ==
    Max(Len(Component.materials), MeshSections(E, Component))

RECURSIVE AllSlotInfo(_, _)
AllSlotInfo(E, Components) ==
    IF Components = <<>> THEN <<>>
    ELSE SlotInfo(E, Head(Components), GetNumMaterials(E, Head(Components)))
         \o AllSlotInfo(E, Tail(Components))

ActorMaterialResponse(E, ActorName, MaterialSlots) ==
    Return("HandleGetActorMaterialInfo", E,
           [actor_name |-> JStr(ActorName), material_slots |-> JArr(MaterialSlots),
            total_slots |-> JNum(Len(MaterialSlots))],
           <<Call("GetEditorWorld", <<>>), Call("GetAllActorsOfClass", <<>>)>>)

ActorMaterialInfoOf(E, ActorName, j) ==
    IF j = 0
    THEN Return("HandleGetActorMaterialInfo", E,
                CreateErrorResponse(JPrintf("Actor not found: %s", ActorName)),
                <<Call("GetEditorWorld", <<>>), Call("GetAllActorsOfClass", <<>>)>>)
    ELSE ActorMaterialResponse(E, ActorName, AllSlotInfo(E, E.actors[j].comps))

HandleGetActorMaterialInfo(E, Params, o) ==
    IF ~TryGetStringField(Params, "actor_name")
    THEN Return("HandleGetActorMaterialInfo", E,
                CreateErrorResponse(JText("Missing 'actor_name' parameter")), <<>>)
    ELSE IF ~o.worldOk
    THEN Return("HandleGetActorMaterialInfo", E,
                CreateErrorResponse(JText("Failed to get editor world")),
                <<Call("GetEditorWorld", <<>>)>>)
    ELSE ActorMaterialInfoOf(E, GetStringField(Params, "actor_name"),
                             FindActor(E, GetStringField(Params, "actor_name")))

BlueprintMaterialResponse(E, BlueprintName, ComponentName, MeshComponent, MaterialSlots, log) ==
    Return("HandleGetBlueprintMaterialInfo", E,
           [component_name |-> JStr(ComponentName), blueprint_name |-> JStr(BlueprintName),
            material_slots |-> JArr(MaterialSlots), total_slots |-> JNum(Len(MaterialSlots)),
            has_static_mesh |-> JBool(MeshComponent.mesh # <<>>)],
           log)

BlueprintMaterialInfoOfNode(E, BlueprintName, ComponentName, bp, i, log) ==
    IF i = 0
    THEN Return("HandleGetBlueprintMaterialInfo", E,
                CreateErrorResponse(JPrintf("Component not found: %s", ComponentName)), log)
    ELSE IF ~IsStaticMeshComponent(E.blueprints[bp].nodes[i])
    THEN Return("HandleGetBlueprintMaterialInfo", E,
                CreateErrorResponse(JText("Component is not a static mesh component")), log)
    ELSE BlueprintMaterialResponse(E, BlueprintName, ComponentName, E.blueprints[bp].nodes[i],
                                   SlotInfo(E, E.blueprints[bp].nodes[i],
                                            MeshSections(E, E.blueprints[bp].nodes[i])),
                                   log)

BlueprintMaterialInfoOf(E, BlueprintName, ComponentName, Blueprint) ==
    IF Blueprint = <<>>
    THEN Return("HandleGetBlueprintMaterialInfo", E,
                CreateErrorResponse(JPrintf("Blueprint not found: %s", BlueprintName)),
                <<Call("FindBlueprint", BlueprintName)>>)
    ELSE IF ~E.blueprints[Blueprint[1]].scs
    THEN NullDereference("HandleGetBlueprintMaterialInfo", E,
                         <<Call("FindBlueprint", BlueprintName)>>)
    ELSE BlueprintMaterialInfoOfNode(E, BlueprintName, ComponentName, Blueprint[1],
                         FindComponentNode(E.blueprints[Blueprint[1]], ComponentName),
                         <<Call("FindBlueprint", BlueprintName),
                           Call("GetAllNodes", Blueprint[1])>>)

\* The blueprint marked modified when it is found
MarkFound(E, BlueprintName, Blueprint) ==
    IF Blueprint = <<>>
    THEN Return("HandleGetBlueprintMaterialInfo", E,
                CreateErrorResponse(JPrintf("Blueprint not found: %s", BlueprintName)),
                <<Call("FindBlueprint", BlueprintName)>>)
    ELSE Return("HandleGetBlueprintMaterialInfo", MarkBlueprintAsModified(E, Blueprint[1]),
                [blueprint_name |-> JStr(BlueprintName)],
                <<Call("FindBlueprint", BlueprintName)>>)

HandleGetBlueprintMaterialInfoMarksModified(E, Params, o) ==
    IF ~TryGetStringField(Params, "blueprint_name")
    THEN Return("HandleGetBlueprintMaterialInfo", E,
                CreateErrorResponse(JText("Missing 'blueprint_name' parameter")), <<>>)
    ELSE MarkFound(E, GetStringField(Params, "blueprint_name"),
                   FindBlueprint(E, GetStringField(Params, "blueprint_name")))

HandleGetBlueprintMaterialInfo(E, Params, o) ==
    IF ~TryGetStringField(Params, "blueprint_name")
    THEN Return("HandleGetBlueprintMaterialInfo", E,
                CreateErrorResponse(JText("Missing 'blueprint_name' parameter")), <<>>)
    ELSE IF ~TryGetStringField(Params, "component_name")
    THEN Return("HandleGetBlueprintMaterialInfo", E,
                CreateErrorResponse(JText("Missing 'component_name' parameter")), <<>>)
    ELSE BlueprintMaterialInfoOf(E, GetStringField(Params, "blueprint_name"),
                                 GetStringField(Params, "component_name"),
                                 FindBlueprint(E, GetStringField(Params, "blueprint_name")))

(***************************************************************************)
(* The blueprint analysis handlers                                         *)
(***************************************************************************)
\* Cast<UBlueprint>(UEditorAssetLibrary::LoadAsset(Path)): the blueprint's key
LoadBlueprint(E, BlueprintPath) == LoadedBlueprint(E, ToLower(BlueprintPath))

\* The names of a sequence of variables or graphs, as a JSON array
NameArray(items) == JArr([k \in 1..Len(items) |-> JStr(items[k].name)])

\* The first element named Name of a sequence of variables or graphs (0: none)
FindNamed(items, Name) ==
    FirstIndex({k \in 1..Len(items) : FStringEq(items[k].name, Name)})

\* The sub-sequence of the elements named Name
RECURSIVE SelectNamed(_, _)
SelectNamed(items, Name) ==
    IF items = <<>> THEN <<>>
    ELSE (IF FStringEq(Head(items).name, Name) THEN <<Head(items)>> ELSE <<>>)
         \o SelectNamed(Tail(items), Name)

\* The nodes of the construction script that have a component template
ComponentArray(Blueprint) ==
    IF Blueprint.scs THEN NameArray(Blueprint.nodes) ELSE JArr(<<>>)

\* The fields of the response: the fixed ones and one per include_* flag that is
\* true or absent
ContentFields(Params) ==
    {"blueprint_path", "blueprint_name", "parent_class", "success"}
    \cup (IF GetBoolOr(Params, "include_variables", TRUE) THEN {"variables"} ELSE {})
    \cup (IF GetBoolOr(Params, "include_functions", TRUE) THEN {"functions"} ELSE {})
    \cup (IF GetBoolOr(Params, "include_event_graph", TRUE) THEN {"event_graph"} ELSE {})
    \cup (IF GetBoolOr(Params, "include_components", TRUE) THEN {"components"} ELSE {})
    \cup (IF GetBoolOr(Params, "include_interfaces", TRUE) THEN {"interfaces"} ELSE {})

\* A graph as the response shows it: its name and its node count
GraphData(Graph) == JArr(<<JStr(Graph.name), JNum(Graph.nodes)>>)

\* The event graph data: of the ubergraph page named EventGraph, if there is one
EventGraphData(Blueprint, eg) ==
    IF eg = 0 THEN JArr(<<>>) ELSE GraphData(Blueprint.ubergraphs[eg])

AllContent(BlueprintPath, Blueprint) ==
    [success |-> JBool(TRUE), variables |-> NameArray(Blueprint.variables),
     functions |-> NameArray(Blueprint.functions), blueprint_name |-> JStr(Blueprint.name),
     blueprint_path |-> JStr(BlueprintPath),
     parent_class |-> JStr(Blueprint.parent),
     event_graph |-> EventGraphData(Blueprint, FindNamed(Blueprint.ubergraphs, TextEventGraph)),
     components |-> ComponentArray(Blueprint),
     interfaces |-> JArr(<<>>)]

ContentResponse(fields, all) == [f \in fields |-> all[f]]

ReadContentOf(E, Params, BlueprintPath, Loaded) ==
    IF Loaded = <<>>
    THEN Return("HandleReadBlueprintContent", E,
                CreateErrorResponse(JPrintf("Failed to load blueprint: %s", BlueprintPath)),
                <<Call("LoadAsset", BlueprintPath)>>)
    ELSE Return("HandleReadBlueprintContent", E,
                ContentResponse(ContentFields(Params),
                                AllContent(BlueprintPath, E.blueprints[Loaded[1]])),
                <<Call("LoadAsset", BlueprintPath)>>)

HandleReadBlueprintContent(E, Params, o) ==
    IF ~TryGetStringField(Params, "blueprint_path")
    THEN Return("HandleReadBlueprintContent", E,
                CreateErrorResponse(JText("Missing 'blueprint_path' parameter")), <<>>)
    ELSE ReadContentOf(E, Params, GetStringField(Params, "blueprint_path"),
                       LoadBlueprint(E, GetStringField(Params, "blueprint_path")))

\* graph_name when given as a string, else "EventGraph"
GraphNameOf(Params) ==
    IF TryGetStringField(Params, "graph_name")
    THEN GetStringField(Params, "graph_name") ELSE TextEventGraph

\* "Find the specified graph": among the ubergraph pages first (u), then among
\* the function graphs (f)
AnalyzeTarget(E, BlueprintPath, GraphName, Blueprint, u, f) ==
    IF u = 0 /\ f = 0
    THEN Return("HandleAnalyzeBlueprintGraph", E,
                CreateErrorResponse(JPrintf("Graph not found: %s", GraphName)),
                <<Call("LoadAsset", BlueprintPath)>>)
    ELSE Return("HandleAnalyzeBlueprintGraph", E,
                [success |-> JBool(TRUE),
                 blueprint_path |-> JStr(BlueprintPath),
                 graph_data |-> GraphData(IF u # 0 THEN Blueprint.ubergraphs[u]
                                                   ELSE Blueprint.functions[f])],
                <<Call("LoadAsset", BlueprintPath)>>)

AnalyzeLoaded(E, BlueprintPath, GraphName, Loaded) ==
    IF Loaded = <<>>
    THEN Return("HandleAnalyzeBlueprintGraph", E,
                CreateErrorResponse(JPrintf("Failed to load blueprint: %s", BlueprintPath)),
                <<Call("LoadAsset", BlueprintPath)>>)
    ELSE AnalyzeTarget(E, BlueprintPath, GraphName, E.blueprints[Loaded[1]],
                       FindNamed(E.blueprints[Loaded[1]].ubergraphs, GraphName),
                       FindNamed(E.blueprints[Loaded[1]].functions, GraphName))

HandleAnalyzeBlueprintGraph(E, Params, o) ==
    IF ~TryGetStringField(Params, "blueprint_path")
    THEN Return("HandleAnalyzeBlueprintGraph", E,
                CreateErrorResponse(JText("Missing 'blueprint_path' parameter")), <<>>)
    ELSE AnalyzeLoaded(E, GetStringField(Params, "blueprint_path"), GraphNameOf(Params),
                       LoadBlueprint(E, GetStringField(Params, "blueprint_path")))

\* The common tail of the variable and function detail handlers: one element when
\* a name was given (an error when none has it), all of them otherwise.
DetailResponse(BlueprintPath, bSpecific, Name, found, one, nameField, many, countField,
               notFound) ==
    IF bSpecific
    THEN IF Len(found) > 0
         THEN [f \in {"blueprint_path", nameField, one, "success"} |->
                 IF f = "blueprint_path" THEN JStr(BlueprintPath)
                 ELSE IF f = nameField THEN JStr(Name)
                 ELSE IF f = one THEN JStr(found[1].name)
                 ELSE JBool(TRUE)]
         ELSE CreateErrorResponse(JPrintf(notFound, Name))
    ELSE [f \in {"blueprint_path", many, countField, "success"} |->
            IF f = "blueprint_path" THEN JStr(BlueprintPath)
            ELSE IF f = many THEN NameArray(found)
            ELSE IF f = countField THEN JNum(Len(found))
            ELSE JBool(TRUE)]

\* The elements the response is about: those of the name given, or all
Selected(Params, nameField, items) ==
    IF TryGetStringField(Params, nameField)
    THEN SelectNamed(items, GetStringField(Params, nameField)) ELSE items

\* The name asked for ("" when none was)
NameAsked(Params, nameField) ==
    IF TryGetStringField(Params, nameField) THEN GetStringField(Params, nameField) ELSE <<>>

VariableDetailsOf(E, Params, BlueprintPath, Loaded) ==
    IF Loaded = <<>>
    THEN Return("HandleGetBlueprintVariableDetails", E,
                CreateErrorResponse(JPrintf("Failed to load blueprint: %s", BlueprintPath)),
                <<Call("LoadAsset", BlueprintPath)>>)
    ELSE Return("HandleGetBlueprintVariableDetails", E,
                DetailResponse(BlueprintPath, TryGetStringField(Params, "variable_name"),
                               NameAsked(Params, "variable_name"),
                               Selected(Params, "variable_name",
                                        E.blueprints[Loaded[1]].variables),
                               "variable", "variable_name", "variables", "variable_count",
                               "Variable not found: %s"),
                <<Call("LoadAsset", BlueprintPath)>>)

HandleGetBlueprintVariableDetails(E, Params, o) ==
    IF ~TryGetStringField(Params, "blueprint_path")
    THEN Return("HandleGetBlueprintVariableDetails", E,
                CreateErrorResponse(JText("Missing 'blueprint_path' parameter")), <<>>)
    ELSE VariableDetailsOf(E, Params, GetStringField(Params, "blueprint_path"),
                           LoadBlueprint(E, GetStringField(Params, "blueprint_path")))

FunctionDetailsOf(E, Params, BlueprintPath, Loaded) ==
    IF Loaded = <<>>
    THEN Return("HandleGetBlueprintFunctionDetails", E,
                CreateErrorResponse(JPrintf("Failed to load blueprint: %s", BlueprintPath)),
                <<Call("LoadAsset", BlueprintPath)>>)
    ELSE Return("HandleGetBlueprintFunctionDetails", E,
                DetailResponse(BlueprintPath, TryGetStringField(Params, "function_name"),
                               NameAsked(Params, "function_name"),
                               Selected(Params, "function_name",
                                        E.blueprints[Loaded[1]].functions),
                               "function", "function_name", "functions", "function_count",
                               "Function not found: %s"),
                <<Call("LoadAsset", BlueprintPath)>>)

HandleGetBlueprintFunctionDetails(E, Params, o) ==
    IF ~TryGetStringField(Params, "blueprint_path")
    THEN Return("HandleGetBlueprintFunctionDetails", E,
                CreateErrorResponse(JText("Missing 'blueprint_path' parameter")), <<>>)
    ELSE FunctionDetailsOf(E, Params, GetStringField(Params, "blueprint_path"),
                           LoadBlueprint(E, GetStringField(Params, "blueprint_path")))

(***************************************************************************)
(* HandleOpenAssetInEditor                                                 *)
(***************************************************************************)
\* The actors of the level on disk, which ULevelEditorSubsystem::LoadLevel brings back
LevelActors ==
    <<[name |-> <<"f","l","o","o","r">>, cls |-> <<>>, loc |-> ZeroVector,
       rot |-> ZeroVector, label |-> <<"F","l","o","o","r">>,
       comps |-> <<[comp |-> 4, name |-> <<"m","e","s","h">>, mesh |-> <<>>,
                    materials |-> <<>>]>>]>>

OpenedResponse(AssetPath, Asset) ==
    [success |-> JBool(TRUE), asset_path |-> JStr(AssetPath),
     asset_name |-> JStr(Asset.path), asset_class |-> JText(Asset.kind)]

\* A UWorld asset: the level editor loads the level
OpenLevel(E, o, AssetPath, Asset) ==
    IF ~o.subsystemOk
    THEN Return("HandleOpenAssetInEditor", E,
                CreateErrorResponse(JText("Failed to get LevelEditorSubsystem")),
                <<Call("LoadAsset", AssetPath)>>)
    ELSE IF ~o.openOk
    THEN Return("HandleOpenAssetInEditor", E,
                CreateErrorResponse(JPrintf("Failed to load level: %s", AssetPath)),
                <<Call("LoadAsset", AssetPath), Call("LoadLevel", AssetPath)>>)
    ELSE Return("HandleOpenAssetInEditor",
                [E EXCEPT !.level = Asset.path, !.actors = LevelActors],
                OpenedResponse(AssetPath, Asset),
                <<Call("LoadAsset", AssetPath), Call("LoadLevel", AssetPath)>>)

\* Any other asset: its asset editor opens
OpenEditorForAsset(E, o, AssetPath, Asset) ==
    IF ~o.subsystemOk
    THEN Return("HandleOpenAssetInEditor", E,
                CreateErrorResponse(JText("Failed to get AssetEditorSubsystem")),
                <<Call("LoadAsset", AssetPath)>>)
    ELSE IF ~o.openOk
    THEN Return("HandleOpenAssetInEditor", E,
                CreateErrorResponse(JPrintf("Failed to open editor for asset: %s", AssetPath)),
                <<Call("LoadAsset", AssetPath), Call("OpenEditorForAsset", AssetPath)>>)
    ELSE Return("HandleOpenAssetInEditor", [E EXCEPT !.editors = @ \cup {Asset.path}],
                OpenedResponse(AssetPath, Asset),
                <<Call("LoadAsset", AssetPath), Call("OpenEditorForAsset", AssetPath)>>)

OpenLoaded(E, o, AssetPath, Asset) ==
    IF Asset.kind = "World" THEN OpenLevel(E, o, AssetPath, Asset)
    ELSE OpenEditorForAsset(E, o, AssetPath, Asset)

OpenAssetAt(E, o, AssetPath, found) ==
    IF found = {}
    THEN Return("HandleOpenAssetInEditor", E,
                CreateErrorResponse(JPrintf("Failed to load asset: %s", AssetPath)),
                <<Call("LoadAsset", AssetPath)>>)
    ELSE OpenLoaded(E, o, AssetPath, CHOOSE x \in found : TRUE)

HandleOpenAssetInEditor(E, Params, o) ==
    IF ~TryGetStringField(Params, "asset_path")
    THEN Return("HandleOpenAssetInEditor", E,
                CreateErrorResponse(JText("Missing 'asset_path' parameter")), <<>>)
    ELSE OpenAssetAt(E, o, GetStringField(Params, "asset_path"),
                     LoadAsset(E, GetStringField(Params, "asset_path")))

(***************************************************************************)
(* HandleCommand                                                           *)
(***************************************************************************)
HandleCommand(E, CommandType, Params, o) ==
    IF FStringEq(CommandType, CmdCreateBlueprint) THEN HandleCreateBlueprint(E, Params, o)
    ELSE IF FStringEq(CommandType, CmdAddComponentToBlueprint)
    THEN HandleAddComponentToBlueprint(E, Params, o)
    ELSE IF FStringEq(CommandType, CmdSetPhysicsProperties)
    THEN HandleSetPhysicsProperties(E, Params, o)
    ELSE IF FStringEq(CommandType, CmdCompileBlueprint) THEN HandleCompileBlueprint(E, Params, o)
    ELSE IF FStringEq(CommandType, CmdSetStaticMeshProperties)
    THEN HandleSetStaticMeshProperties(E, Params, o)
    ELSE IF FStringEq(CommandType, CmdSpawnBlueprintActor)
    THEN HandleSpawnBlueprintActor(E, Params, o)
    ELSE IF FStringEq(CommandType, CmdSetMeshMaterialColor)
    THEN HandleSetMeshMaterialColor(E, Params, o)
    ELSE IF FStringEq(CommandType, CmdGetAvailableMaterials)
    THEN HandleGetAvailableMaterials(E, Params, o)
    ELSE IF FStringEq(CommandType, CmdApplyMaterialToActor)
    THEN HandleApplyMaterialToActor(E, Params, o)
    ELSE IF FStringEq(CommandType, CmdApplyMaterialToBlueprint)
    THEN HandleApplyMaterialToBlueprint(E, Params, o)
    ELSE IF FStringEq(CommandType, CmdGetActorMaterialInfo)
    THEN HandleGetActorMaterialInfo(E, Params, o)
    ELSE IF FStringEq(CommandType, CmdGetBlueprintMaterialInfo)
    THEN HandleGetBlueprintMaterialInfo(E, Params, o)
    ELSE IF FStringEq(CommandType, CmdReadBlueprintContent)
    THEN HandleReadBlueprintContent(E, Params, o)
    ELSE IF FStringEq(CommandType, CmdAnalyzeBlueprintGraph)
    THEN HandleAnalyzeBlueprintGraph(E, Params, o)
    ELSE IF FStringEq(CommandType, CmdGetBlueprintVariableDetails)
    THEN HandleGetBlueprintVariableDetails(E, Params, o)
    ELSE IF FStringEq(CommandType, CmdGetBlueprintFunctionDetails)
    THEN HandleGetBlueprintFunctionDetails(E, Params, o)
    ELSE IF FStringEq(CommandType, CmdOpenAssetInEditor)
    THEN HandleOpenAssetInEditor(E, Params, o)
    ELSE [resp |-> CreateErrorResponse(JPrintf("Unknown blueprint command: %s", CommandType)),
          ran |-> <<>>,
          calls |-> <<>>, E |-> E, crash |-> FALSE]

(***************************************************************************)
(* Bounds of the model and the values commands are given.                  *)
(***************************************************************************)
\* Nodes a construction script may reach
MaxNodes == 2

\* Actors spawned into the world on top of the level's own
MaxActors == 1

NameP == <<"P">>

NameQ == <<"Q">>

NameLowerQ == <<"q">>

NameZ == <<"Z">>

NameM == <<"M">>

NameR == <<"R">>

NameV == <<"V">>

NameF == <<"F">>

NameFloor == <<"F","l","o","o","r">>

TextStaticMesh == <<"S","t","a","t","i","c","M","e","s","h">>

TextStaticMeshComponent == TextStaticMesh \o TextComponent

TextBoxComponent == <<"B","o","x">> \o TextComponent

TextSceneComponent == <<"S","c","e","n","e">> \o TextComponent

TextActorComponent == <<"A","c","t","o","r">> \o TextComponent

TextBogus == <<"B","o","g","u","s">>

TextPawn == <<"P","a","w","n">>

RedMaterial == <<"/","G","a","m","e","/","R","e","d","M","a","t","e","r","i","a","l">>

PaintAsset == <<"/","G","a","m","e","/","P","a","i","n","t">>

CubeMesh == <<"/","G","a","m","e","/","C","u","b","e">>

MapLevel == <<"/","G","a","m","e","/","M","a","p">>

NoSuchAsset == <<"/","G","a","m","e","/","N","o","n","e">>

UpperCreateBlueprint == <<"C","R","E","A","T","E","_","B","L","U","E","P","R","I","N","T">>

CmdBogus == <<"d","e","l","e","t","e","_","b","l","u","e","p","r","i","n","t">>

Asset(Path, Kind, Sections) == [path |-> ToLower(Path), kind |-> Kind, sections |-> Sections]

ComponentClass(Name, Depth) == [key |-> ToLower(Name), actor |-> FALSE, comp |-> Depth]

\* The classes of a stock editor
StandardClasses ==
    {AActorStaticClass, APawnStaticClass,
     ComponentClass(TextStaticMeshComponent, 4), ComponentClass(TextBoxComponent, 3),
     ComponentClass(TextSceneComponent, 2), ComponentClass(TextActorComponent, 1)}

\* The assets of the project before any command
ProjectAssets ==
    {Asset(PackagePath \o NameP, "Blueprint", 0), Asset(RedMaterial, "Material", 0),
     Asset(PaintAsset, "Material", 0), Asset(CubeMesh, "StaticMesh", 1),
     Asset(MapLevel, "World", 0)}

\* The blueprint /Game/Blueprints/P the project may already hold: an actor blueprint
\* with a scene root, a blueprint with no construction script (not actor-based), and
\* an actor blueprint that has a mesh component and no generated class yet.
SeedActor ==
    [name |-> NameP, parent |-> AActorStaticClass.key, scs |-> TRUE, isActor |-> TRUE,
     nodes |-> <<CreateNode(ComponentClass(TextSceneComponent, 2), NameR)>>,
     gen |-> TRUE, status |-> "BS_UpToDate",
     variables |-> <<[name |-> NameV, nodes |-> 0]>>,
     functions |-> <<[name |-> NameF, nodes |-> 2]>>,
     ubergraphs |-> <<[name |-> TextEventGraph, nodes |-> 3]>>]

SeedNoConstructionScript ==
    [SeedActor EXCEPT !.scs = FALSE, !.isActor = FALSE, !.nodes = <<>>,
                      !.parent = ToLower(TextActorComponent)]

SeedNotCompiled ==
    [SeedActor EXCEPT !.gen = FALSE, !.status = "BS_Dirty",
                      !.nodes = <<CreateNode(ComponentClass(TextStaticMeshComponent, 4), NameM)>>]

Seeds == {SeedActor, SeedNoConstructionScript, SeedNotCompiled}

InitWith(classTables, seeds, assetSets) ==
    /\ classes \in classTables
    /\ assets \in assetSets
    /\ packages = {ToLower(PackagePath \o NameP)}
    /\ \E seed \in seeds : blueprints = [p \in {ToLower(PackagePath \o NameP)} |-> seed]
    /\ actors = LevelActors
    /\ dirty = {}
    /\ editors = {}
    /\ level = ToLower(MapLevel)
    /\ crashed = FALSE
    /\ pc = "idle"
    /\ cmd = <<>>
    /\ params = EmptyObject
    /\ resp = EmptyObject
    /\ ran = <<>>
    /\ calls = <<>>

\* The editor after a handler returned r (or crashed), within the bounds
Commit(CommandType, Params, r) ==
    /\ \A b \in DOMAIN r.E.blueprints : Len(r.E.blueprints[b].nodes) <= MaxNodes
    /\ Len(r.E.actors) <= Len(LevelActors) + MaxActors
    /\ classes' = r.E.classes
    /\ assets' = r.E.assets
    /\ packages' = r.E.packages
    /\ blueprints' = r.E.blueprints
    /\ actors' = r.E.actors
    /\ dirty' = r.E.dirty
    /\ editors' = r.E.editors
    /\ level' = r.E.level
    /\ crashed' = r.crash
    /\ pc' = "returned"
    /\ cmd' = CommandType
    /\ params' = Params
    /\ resp' = r.resp
    /\ ran' = r.ran
    /\ calls' = r.calls

\* One command: HandleCommand called with a name and a parameter bag, the engine
\* answering as o says where it may fail.  A crashed editor takes no more commands.
Step(CommandType, Params, o) ==
    Commit(CommandType, Params, HandleCommand(Engine, CommandType, Params, o))

\* The editor runs and no command is being handled
Ready == ~crashed /\ pc = "idle"

\* The caller takes the response; the handler is ready for the next command.
TakeResponse ==
    /\ ~crashed
    /\ pc = "returned"
    /\ pc' = "idle"
    /\ cmd' = <<>>
    /\ params' = EmptyObject
    /\ resp' = EmptyObject
    /\ ran' = <<>>
    /\ calls' = <<>>
    /\ UNCHANGED <<engineVars, crashed>>

\* The bags that lack some of the fields req of a full bag (and the full bag)
Restrict(f, D) == [x \in D |-> f[x]]

Lacking(full, req) == {Restrict(full, DOMAIN full \ D) : D \in SUBSET req}

Vec(x, y, z) == JArr(<<JNum(x), JNum(y), JNum(z)>>)

With(bag, f, v) == [x \in DOMAIN bag \cup {f} |-> IF x = f THEN v ELSE bag[x]]

(***************************************************************************)
(* The actions: one per command, over the parameter bags it is given.      *)
(***************************************************************************)
CreateBlueprint(Bags) ==
    /\ Ready
    /\ \E p \in Bags, ok \in BOOLEAN :
           Step(CmdCreateBlueprint, p, [DefaultOracle EXCEPT !.factoryOk = ok])

AddComponentToBlueprint(Bags) ==
    /\ Ready
    /\ \E p \in Bags, ok \in BOOLEAN :
           Step(CmdAddComponentToBlueprint, p, [DefaultOracle EXCEPT !.nodeOk = ok])

SetPhysicsProperties(Bags) ==
    /\ Ready
    /\ \E p \in Bags : Step(CmdSetPhysicsProperties, p, DefaultOracle)

CompileBlueprintCmd(Bags) ==
    /\ Ready
    /\ \E p \in Bags : Step(CmdCompileBlueprint, p, DefaultOracle)

SetStaticMeshProperties(Bags) ==
    /\ Ready
    /\ \E p \in Bags : Step(CmdSetStaticMeshProperties, p, DefaultOracle)

SpawnBlueprintActor(Bags) ==
    /\ Ready
    /\ \E p \in Bags, world \in BOOLEAN, ok \in BOOLEAN :
           Step(CmdSpawnBlueprintActor, p,
                [DefaultOracle EXCEPT !.worldOk = world, !.spawnOk = ok])

SetMeshMaterialColor(Bags) ==
    /\ Ready
    /\ \E p \in Bags, ok \in BOOLEAN :
           Step(CmdSetMeshMaterialColor, p, [DefaultOracle EXCEPT !.dynOk = ok])

GetAvailableMaterials(Bags) ==
    /\ Ready
    /\ \E p \in Bags : Step(CmdGetAvailableMaterials, p, DefaultOracle)

ApplyMaterialToActor(Bags) ==
    /\ Ready
    /\ \E p \in Bags, world \in BOOLEAN :
           Step(CmdApplyMaterialToActor, p, [DefaultOracle EXCEPT !.worldOk = world])

ApplyMaterialToBlueprint(Bags) ==
    /\ Ready
    /\ \E p \in Bags : Step(CmdApplyMaterialToBlueprint, p, DefaultOracle)

GetActorMaterialInfo(Bags) ==
    /\ Ready
    /\ \E p \in Bags, world \in BOOLEAN :
           Step(CmdGetActorMaterialInfo, p, [DefaultOracle EXCEPT !.worldOk = world])

GetBlueprintMaterialInfo(Bags) ==
    /\ Ready
    /\ \E p \in Bags : Step(CmdGetBlueprintMaterialInfo, p, DefaultOracle)

ReadBlueprintContent(Bags) ==
    /\ Ready
    /\ \E p \in Bags : Step(CmdReadBlueprintContent, p, DefaultOracle)

AnalyzeBlueprintGraph(Bags) ==
    /\ Ready
    /\ \E p \in Bags : Step(CmdAnalyzeBlueprintGraph, p, DefaultOracle)

GetBlueprintVariableDetails(Bags) ==
    /\ Ready
    /\ \E p \in Bags : Step(CmdGetBlueprintVariableDetails, p, DefaultOracle)

GetBlueprintFunctionDetails(Bags) ==
    /\ Ready
    /\ \E p \in Bags : Step(CmdGetBlueprintFunctionDetails, p, DefaultOracle)

OpenAssetInEditor(Bags) ==
    /\ Ready
    /\ \E p \in Bags, sub \in BOOLEAN, ok \in BOOLEAN :
           Step(CmdOpenAssetInEditor, p,
                [DefaultOracle EXCEPT !.subsystemOk = sub, !.openOk = ok])

\* A command name that is none of the seventeen as written
OtherCommand(Names, Bags) ==
    /\ Ready
    /\ \E c \in Names, p \in Bags, ok \in BOOLEAN :
           Step(c, p, [DefaultOracle EXCEPT !.factoryOk = ok])

(***************************************************************************)
(* Spec: every command, each over a few parameter bags.                    *)
(***************************************************************************)
BlueprintPathP == PackagePath \o NameP

CreateBags ==
    Lacking([name |-> JStr(NameQ)], {"name"})
    \cup {[name |-> JStr(NameP)], [name |-> JStr(NameLowerQ)]}

ComponentBag(Blueprint, Component) ==
    [component_name |-> JStr(Component), blueprint_name |-> JStr(Blueprint)]

AddComponentBags ==
    Lacking([component_name |-> JStr(NameM), component_type |-> JStr(TextStaticMesh),
             blueprint_name |-> JStr(NameP)],
            {"blueprint_name", "component_type", "component_name"})
    \cup {[component_name |-> JStr(NameM), component_type |-> JStr(TextStaticMesh),
           blueprint_name |-> JStr(NameZ)],
          [component_name |-> JStr(NameM), component_type |-> JStr(TextBogus),
           blueprint_name |-> JStr(NameP)]}

ComponentBags(extra) ==
    UNION {Lacking(ComponentBag(NameP, NameM) @@ extra, {"blueprint_name", "component_name"}),
           {ComponentBag(NameZ, NameM) @@ extra, ComponentBag(NameP, NameZ) @@ extra,
            ComponentBag(NameP, NameR) @@ extra}}

SetPhysicsBags == ComponentBags(EmptyObject)

CompileBags ==
    Lacking([blueprint_name |-> JStr(NameP)], {"blueprint_name"})
    \cup {[blueprint_name |-> JStr(NameZ)]}

SetStaticMeshBags == ComponentBags(EmptyObject)

SpawnBags ==
    Lacking([actor_name |-> JStr(NameFloor), blueprint_name |-> JStr(NameQ)],
            {"blueprint_name", "actor_name"})
    \cup {[actor_name |-> JStr(NameFloor), blueprint_name |-> JStr(NameZ)]}

ColorBags ==
    ComponentBags([color |-> JArr(<<JNum(One), JNum(0), JNum(2 * One), JNum(One)>>),
                   material_path |-> JStr(RedMaterial)])
    \cup {ComponentBag(NameP, NameM)}

AvailableMaterialsBags ==
    {EmptyObject, [search_path |-> JStr(<<"G","a","m","e">>),
                   include_engine_materials |-> JBool(FALSE)]}

ApplyToActorBags ==
    Lacking([actor_name |-> JStr(NameFloor), material_path |-> JStr(RedMaterial)],
            {"actor_name", "material_path"})
    \cup {[actor_name |-> JStr(NameZ), material_path |-> JStr(RedMaterial)],
          [actor_name |-> JStr(NameFloor), material_path |-> JStr(NoSuchAsset)]}

ApplyToBlueprintBags ==
    UNION {Lacking(ComponentBag(NameP, NameM) @@ [material_path |-> JStr(RedMaterial)],
                   {"blueprint_name", "component_name", "material_path"}),
           {ComponentBag(NameZ, NameM) @@ [material_path |-> JStr(RedMaterial)],
            ComponentBag(NameP, NameZ) @@ [material_path |-> JStr(RedMaterial)],
            ComponentBag(NameP, NameR) @@ [material_path |-> JStr(RedMaterial)],
            ComponentBag(NameP, NameM) @@ [material_path |-> JStr(NoSuchAsset)]}}

ActorInfoBags ==
    Lacking([actor_name |-> JStr(NameFloor)], {"actor_name"})
    \cup {[actor_name |-> JStr(NameZ)]}

BlueprintInfoBags == ComponentBags(EmptyObject)

PathBags(extra) ==
    Lacking([blueprint_path |-> JStr(BlueprintPathP)] @@ extra, {"blueprint_path"})
    \cup {[blueprint_path |-> JStr(NoSuchAsset)] @@ extra}

ReadBags == PathBags(EmptyObject) \cup PathBags([include_components |-> JBool(FALSE)])

AnalyzeBags == PathBags(EmptyObject) \cup PathBags([graph_name |-> JStr(NameZ)])

VariableBags == PathBags(EmptyObject) \cup PathBags([variable_name |-> JStr(NameV)])
                \cup PathBags([variable_name |-> JStr(NameZ)])

FunctionBags == PathBags(EmptyObject) \cup PathBags([function_name |-> JStr(NameF)])
                \cup PathBags([function_name |-> JStr(NameZ)])

OpenAssetBags ==
    Lacking([asset_path |-> JStr(RedMaterial)], {"asset_path"})
    \cup {[asset_path |-> JStr(MapLevel)], [asset_path |-> JStr(NoSuchAsset)]}

OtherNames == {CmdBogus, UpperCreateBlueprint}

Init == InitWith({StandardClasses}, Seeds, {ProjectAssets})

Next ==
    \/ CreateBlueprint(CreateBags)
    \/ AddComponentToBlueprint(AddComponentBags)
    \/ SetPhysicsProperties(SetPhysicsBags)
    \/ CompileBlueprintCmd(CompileBags)
    \/ SetStaticMeshProperties(SetStaticMeshBags)
    \/ SpawnBlueprintActor(SpawnBags)
    \/ SetMeshMaterialColor(ColorBags)
    \/ GetAvailableMaterials(AvailableMaterialsBags)
    \/ ApplyMaterialToActor(ApplyToActorBags)
    \/ ApplyMaterialToBlueprint(ApplyToBlueprintBags)
    \/ GetActorMaterialInfo(ActorInfoBags)
    \/ GetBlueprintMaterialInfo(BlueprintInfoBags)
    \/ ReadBlueprintContent(ReadBags)
    \/ AnalyzeBlueprintGraph(AnalyzeBags)
    \/ GetBlueprintVariableDetails(VariableBags)
    \/ GetBlueprintFunctionDetails(FunctionBags)
    \/ OpenAssetInEditor(OpenAssetBags)
    \/ OtherCommand(OtherNames, {EmptyObject, [name |-> JStr(NameQ)]})
    \/ TakeResponse

Spec == Init /\ [][Next]_vars

TypeOK == crashed \in BOOLEAN /\ Len(ran) <= 1

(***************************************************************************)
(* SpecCreate: create_blueprint over names and parent classes, in editors  *)
(* that differ in the classes LoadClass finds.                             *)
(***************************************************************************)
TextHero == <<"H","e","r","o">>

TextAHero == <<"A","H","e","r","o">>

TextActor == <<"A","c","t","o","r">>

TextLowerPawn == <<"p","a","w","n">>

ActorClass(Path) == [key |-> ToLower(Path), actor |-> TRUE, comp |-> 0]

\* /Script/Engine.AHero and /Script/Game.AHero, as the project may or may not have
EngineHero == ActorClass(ScriptEnginePrefix \o TextAHero)

GameHero == ActorClass(ScriptGamePrefix \o TextAHero)

\* /Script/Engine.AHelper is a class, but no actor class
EngineHelper ==
    [key |-> ToLower(ScriptEnginePrefix \o <<"A","H","e","l","p","e","r">>), actor |-> FALSE,
     comp |-> 0]

TextHelper == <<"H","e","l","p","e","r">>

ClassTablesCreate ==
    {StandardClasses \cup {EngineHelper} \cup extra : extra \in SUBSET {EngineHero, GameHero}}

ParentClasses ==
    {<<>>, TextPawn, TextLowerPawn, TextAPawn, TextActor, TextAActor, TextHero, TextAHero,
     TextHelper, TextBogus}

CreateBagsParents ==
    {[name |-> JStr(NameQ)], [name |-> JStr(NameP)], [name |-> JStr(NameQ), parent_class |-> JNum(7)]}
    \cup {[name |-> JStr(NameQ), parent_class |-> JStr(c)] : c \in ParentClasses}

InitCreate == InitWith(ClassTablesCreate, {SeedActor}, {ProjectAssets})

NextCreate ==
    \/ CreateBlueprint(CreateBagsParents)
    \/ ReadBlueprintContent({[blueprint_path |-> JStr(PackagePath \o NameQ)]})
    \/ TakeResponse

SpecCreate == InitCreate /\ [][NextCreate]_vars

(***************************************************************************)
(* SpecAdd: add_component_to_blueprint over component types, in editors    *)
(* that differ in the classes FindObject finds.                            *)
(***************************************************************************)
TextBox == <<"B","o","x">>

TextUBox == <<"U","B","o","x">>

TextLowerUBox == <<"u","b","o","x">>

TextUBoxComponent == TextU \o TextBoxComponent

TextBoxLowerComponent == TextBox \o <<"c","o","m","p","o","n","e","n","t">>

\* The classes a component type of the Box family may resolve to: each is there or
\* not, and Box (if there) is a class that is no component
BoxFamily ==
    {[key |-> ToLower(TextBox), actor |-> FALSE, comp |-> 0],
     ComponentClass(TextBoxComponent, 3), ComponentClass(TextUBox, 2),
     ComponentClass(TextUBoxComponent, 1)}

ClassTablesAdd == {{AActorStaticClass} \cup family : family \in SUBSET BoxFamily}

ComponentTypes ==
    {TextBox, TextBoxComponent, TextUBox, TextUBoxComponent, TextLowerUBox,
     TextBoxLowerComponent, TextBogus}

AddBagsTypes ==
    {[component_name |-> JStr(NameM), component_type |-> JStr(T),
      blueprint_name |-> JStr(NameP)] : T \in ComponentTypes}

InitAdd == InitWith(ClassTablesAdd, {SeedActor}, {ProjectAssets})

NextAdd ==
    \/ AddComponentToBlueprint(AddBagsTypes)
    \/ ReadBlueprintContent({[blueprint_path |-> JStr(BlueprintPathP)]})
    \/ TakeResponse

SpecAdd == InitAdd /\ [][NextAdd]_vars

(***************************************************************************)
(* SpecComponents: the commands on a blueprint's components and on an      *)
(* actor's materials, over bags in which several checks fail at once.      *)
(***************************************************************************)
ValidColor == JArr(<<JNum(One), JNum(0), JNum(2 * One), JNum(One)>>)

ShortColor == JArr(<<JNum(One), JNum(0), JNum(0)>>)

PhysicsBagsRich == ComponentBags([mass |-> JNum(5), simulate_physics |-> JBool(TRUE)])

StaticMeshBagsRich ==
    ComponentBags([static_mesh |-> JStr(CubeMesh)])
    \cup {ComponentBag(NameP, NameM)
            @@ [static_mesh |-> JStr(NoSuchAsset), material |-> JStr(RedMaterial)]}

ColorBagsRich ==
    UNION {ComponentBags([color |-> ValidColor]),
           ComponentBags([color |-> ShortColor, material_path |-> JStr(NoSuchAsset)]),
           {ComponentBag(NameP, NameM),
            ComponentBag(NameP, NameM)
              @@ [color |-> ValidColor, material_path |-> JStr(NoSuchAsset)],
            ComponentBag(NameP, NameM)
              @@ [color |-> ValidColor, material_path |-> JStr(RedMaterial)]}}

ApplyToBlueprintBagsRich ==
    ApplyToBlueprintBags
    \cup {ComponentBag(NameZ, NameZ) @@ [material_path |-> JStr(NoSuchAsset)],
          ComponentBag(NameP, NameZ) @@ [material_path |-> JStr(NoSuchAsset)],
          ComponentBag(NameP, NameR) @@ [material_path |-> JStr(NoSuchAsset)]}

\* The project, and the project in an editor that has the engine's basic shapes
AssetSets == {ProjectAssets, ProjectAssets \cup {Asset(BasicShapeMaterial, "Material", 0)}}

InitComponents == InitWith({StandardClasses}, Seeds, AssetSets)

NextComponents ==
    \/ AddComponentToBlueprint(AddComponentBags)
    \/ SetPhysicsProperties(PhysicsBagsRich)
    \/ SetStaticMeshProperties(StaticMeshBagsRich)
    \/ SetMeshMaterialColor(ColorBagsRich)
    \/ ApplyMaterialToBlueprint(ApplyToBlueprintBagsRich)
    \/ ApplyMaterialToActor(ApplyToActorBags)
    \/ GetBlueprintMaterialInfo(BlueprintInfoBags)
    \/ TakeResponse

SpecComponents == InitComponents /\ [][NextComponents]_vars

(***************************************************************************)
(* SpecSpawn: spawn_blueprint_actor over blueprints that are compiled, not *)
(* compiled, not actor-based or not there, with and without a transform.   *)
(***************************************************************************)
TextLabel == <<"L","a","b","e","l">>

SpawnBagsRich ==
    UNION {Lacking([actor_name |-> JStr(TextLabel), blueprint_name |-> JStr(NameP)],
                   {"blueprint_name", "actor_name"}),
           {[actor_name |-> JStr(TextLabel), blueprint_name |-> JStr(b)] @@ t :
               b \in {NameP, NameQ, NameZ},
               t \in {EmptyObject, [location |-> Vec(1, 2, 3)], [rotation |-> Vec(0, 90, 0)],
                      [location |-> Vec(1, 2, 3), rotation |-> Vec(0, 90, 0)]}}}

InitSpawn == InitWith({StandardClasses}, Seeds, {ProjectAssets})

NextSpawn ==
    \/ CreateBlueprint({[name |-> JStr(NameQ)]})
    \/ CompileBlueprintCmd({[blueprint_name |-> JStr(NameP)]})
    \/ SpawnBlueprintActor(SpawnBagsRich)
    \/ OpenAssetInEditor({[asset_path |-> JStr(MapLevel)]})
    \/ TakeResponse

SpecSpawn == InitSpawn /\ [][NextSpawn]_vars
(***************************************************************************)
(* SpecTransform: add_component_to_blueprint over scene and non-scene      *)
(* components, with every choice of location, rotation and scale, on a     *)
(* blueprint that is compiled or not.                                      *)
(***************************************************************************)
NameB == <<"B">>

TransformFields ==
    [scale |-> Vec(2, 2, 2), location |-> Vec(1, 2, 3), rotation |-> Vec(0, 90, 0)]

TextScene == <<"S","c","e","n","e">>

AddBagsTransform ==
    {[component_name |-> JStr(NameB), component_type |-> JStr(T),
      blueprint_name |-> JStr(NameP)] @@ Restrict(TransformFields, D) :
        T \in {TextScene, TextActor, TextStaticMesh},
        D \in SUBSET {"location", "rotation", "scale"}}

InitTransform == InitWith({StandardClasses}, {SeedActor, SeedNotCompiled}, {ProjectAssets})

NextTransform ==
    \/ AddComponentToBlueprint(AddBagsTransform)
    \/ TakeResponse

SpecTransform == InitTransform /\ [][NextTransform]_vars

(***************************************************************************)
(* SpecPhysics: set_physics_properties over every choice of its four       *)
(* optional fields, on two primitive components of one blueprint.          *)
(***************************************************************************)
PhysicsFields ==
    [mass |-> JNum(5), simulate_physics |-> JBool(TRUE), linear_damping |-> JNum(1),
     angular_damping |-> JNum(2)]

PhysicsBagsFields ==
    {ComponentBag(NameP, c) @@ Restrict(PhysicsFields, D) :
        c \in {NameM, NameB},
        D \in SUBSET {"simulate_physics", "mass", "linear_damping", "angular_damping"}}
    \cup {ComponentBag(NameP, NameM) @@ [mass |-> JNum(7)],
          ComponentBag(NameP, NameM) @@ [simulate_physics |-> JBool(FALSE)]}

AddBagsBox ==
    {[component_name |-> JStr(NameB), component_type |-> JStr(TextBox),
      blueprint_name |-> JStr(NameP)]}

InitPhysics == InitWith({StandardClasses}, {SeedNotCompiled}, {ProjectAssets})

NextPhysics ==
    \/ AddComponentToBlueprint(AddBagsBox)
    \/ SetPhysicsProperties(PhysicsBagsFields)
    \/ TakeResponse

SpecPhysics == InitPhysics /\ [][NextPhysics]_vars

(***************************************************************************)
(* SpecMesh: set_static_mesh_properties with mesh and material paths that  *)
(* load, that name no asset, and that name an asset of another kind.       *)
(***************************************************************************)
MeshPaths == {JStr(CubeMesh), JStr(NoSuchAsset), JStr(RedMaterial), JArr(<<>>)}

MaterialPaths == {JStr(RedMaterial), JStr(PaintAsset), JStr(NoSuchAsset), JStr(CubeMesh)}

StaticMeshBagsPaths ==
    UNION {{ComponentBag(NameP, NameM), ComponentBag(NameP, NameR)},
           {ComponentBag(NameP, NameM) @@ [static_mesh |-> m] : m \in MeshPaths},
           {ComponentBag(NameP, NameM) @@ [material |-> t] : t \in MaterialPaths},
           {ComponentBag(NameP, NameM) @@ [static_mesh |-> m, material |-> t] :
               m \in MeshPaths, t \in MaterialPaths}}

InitMesh == InitWith({StandardClasses}, {SeedActor, SeedNotCompiled}, {ProjectAssets})

NextMesh ==
    \/ SetStaticMeshProperties(StaticMeshBagsPaths)
    \/ CompileBlueprintCmd({[blueprint_name |-> JStr(NameP)]})
    \/ TakeResponse

SpecMesh == InitMesh /\ [][NextMesh]_vars

(***************************************************************************)
(* SpecColor: set_mesh_material_color over colors of every shape, material *)
(* paths that load or not, and material slots, on a static mesh component  *)
(* and on a box component, in editors with and without the engine's basic  *)
(* shape material.                                                         *)
(***************************************************************************)
TextRed == <<"r","e","d">>

\* Colors that are no array of 4: a string, a number, arrays of 3 and of 5
WrongShapeColors ==
    {JStr(TextRed), JNum(One),
     JArr(<<JNum(One), JNum(0), JNum(0)>>),
     JArr(<<JNum(One), JNum(0), JNum(0), JNum(One), JNum(One)>>)}

\* Arrays of 4 of which some elements are no numbers
NonNumberColors ==
    {JArr(<<JNum(One), JStr(TextRed), JNum(0), JNum(One)>>),
     JArr(<<JBool(TRUE), JNum(0), JArr(<<>>), JNum(One)>>)}

\* Two doubles within [0, 1] that are no floats, then 2.0 and -1.0
FractionColor == JArr(<<JNum(1), JNum(3), JNum(2 * One), JNum(0 - One)>>)

\* 0.0, 0.5, 1.0, 0.5: in range, all floats
FloatColor == JArr(<<JNum(0), JNum(FloatStep), JNum(One), JNum(FloatStep)>>)

ColorBagsShapes ==
    {ComponentBag(NameP, c) @@ [color |-> v] :
        c \in {NameM, NameB}, v \in WrongShapeColors \cup NonNumberColors}
    \cup {ComponentBag(NameP, NameM), ComponentBag(NameP, NameB)}

ColorBagsNumbers ==
    {ComponentBag(NameP, NameM) @@ [color |-> v] : v \in {FractionColor, FloatColor}}

ColorBagsMaterials ==
    {ComponentBag(NameP, c) @@ [color |-> ValidColor] @@ path @@ slot :
        c \in {NameM, NameB},
        path \in {EmptyObject, [material_path |-> JStr(RedMaterial)],
                  [material_path |-> JStr(NoSuchAsset)], [material_path |-> JStr(CubeMesh)]},
        slot \in {EmptyObject, [material_slot |-> JNum(0)], [material_slot |-> JNum(1)],
                  [material_slot |-> JNum(0 - 1)]}}

ColorBagsAll == UNION {ColorBagsShapes, ColorBagsNumbers, ColorBagsMaterials}

StaticMeshBagsSetup ==
    {ComponentBag(NameP, NameM) @@ [static_mesh |-> JStr(CubeMesh)],
     ComponentBag(NameP, NameM) @@ [material |-> JStr(PaintAsset)]}

InitColor == InitWith({StandardClasses}, {SeedNotCompiled}, AssetSets)

NextColor ==
    \/ AddComponentToBlueprint(AddBagsBox)
    \/ SetStaticMeshProperties(StaticMeshBagsSetup)
    \/ SetMeshMaterialColor(ColorBagsAll)
    \/ TakeResponse

SpecColor == InitColor /\ [][NextColor]_vars

(***************************************************************************)
(* Properties.  An action property reads the editor before a command       *)
(* unprimed and, primed, the editor after it together with the record of   *)
(* the call: cmd', params', resp', ran', calls'.                           *)
(***************************************************************************)
\* The command names of HandleCommand and the handler each one names
CommandNames ==
    <<CmdCreateBlueprint, CmdAddComponentToBlueprint, CmdSetPhysicsProperties,
      CmdCompileBlueprint, CmdSetStaticMeshProperties, CmdSpawnBlueprintActor,
      CmdSetMeshMaterialColor, CmdGetAvailableMaterials, CmdApplyMaterialToActor,
      CmdApplyMaterialToBlueprint, CmdGetActorMaterialInfo, CmdGetBlueprintMaterialInfo,
      CmdReadBlueprintContent, CmdAnalyzeBlueprintGraph, CmdGetBlueprintVariableDetails,
      CmdGetBlueprintFunctionDetails, CmdOpenAssetInEditor>>

HandlerNames ==
    <<"HandleCreateBlueprint", "HandleAddComponentToBlueprint", "HandleSetPhysicsProperties",
      "HandleCompileBlueprint", "HandleSetStaticMeshProperties", "HandleSpawnBlueprintActor",
      "HandleSetMeshMaterialColor", "HandleGetAvailableMaterials", "HandleApplyMaterialToActor",
      "HandleApplyMaterialToBlueprint", "HandleGetActorMaterialInfo",
      "HandleGetBlueprintMaterialInfo", "HandleReadBlueprintContent",
      "HandleAnalyzeBlueprintGraph", "HandleGetBlueprintVariableDetails",
      "HandleGetBlueprintFunctionDetails", "HandleOpenAssetInEditor">>

\* A command has just been handled
Handled == pc' = "returned"

\* The handler h has just run
HandlerRan(h) == pc' = "returned" /\ ran' = <<h>>

\* C1: HandleCommand is a total dispatcher.  For each of the 17 command names it
\* runs exactly the handler of that name, once, and returns its response; for
\* every other command name it runs no handler, changes no state and returns the
\* error response "Unknown blueprint command: <name>".
C1_TotalDispatcher ==
    [][Handled =>
          IF \E k \in 1..17 : cmd' = CommandNames[k]
          THEN /\ \A k \in 1..17 : cmd' = CommandNames[k] => ran' = <<HandlerNames[k]>>
               /\ ~crashed'
          ELSE /\ ran' = <<>>
               /\ UNCHANGED engineVars
               /\ resp' = CreateErrorResponse(JPrintf("Unknown blueprint command: %s", cmd'))
      ]_vars

\* The string parameters each handler requires
RequiredFields ==
    [h \in {HandlerNames[k] : k \in 1..17} |->
        CASE h = "HandleCreateBlueprint" -> {"name"}
          [] h = "HandleAddComponentToBlueprint" ->
                 {"blueprint_name", "component_type", "component_name"}
          [] h \in {"HandleSetPhysicsProperties", "HandleSetStaticMeshProperties",
                    "HandleSetMeshMaterialColor", "HandleGetBlueprintMaterialInfo"} ->
                 {"blueprint_name", "component_name"}
          [] h = "HandleApplyMaterialToBlueprint" ->
                 {"blueprint_name", "component_name", "material_path"}
          [] h = "HandleCompileBlueprint" -> {"blueprint_name"}
          [] h = "HandleSpawnBlueprintActor" -> {"blueprint_name", "actor_name"}
          [] h = "HandleApplyMaterialToActor" -> {"actor_name", "material_path"}
          [] h = "HandleGetActorMaterialInfo" -> {"actor_name"}
          [] h \in {"HandleReadBlueprintContent", "HandleAnalyzeBlueprintGraph",
                    "HandleGetBlueprintVariableDetails",
                    "HandleGetBlueprintFunctionDetails"} -> {"blueprint_path"}
          [] h = "HandleOpenAssetInEditor" -> {"asset_path"}
          [] OTHER -> {}]

\* C2: when a required string parameter of the handler that runs is absent from
\* Params, the handler returns an error response before any engine lookup (it has
\* made no editor call), and the blueprints, their components, the world's actors
\* and the modified/dirty flags are unchanged.
C2_MissingParameter ==
    [][(/\ Handled
        /\ Len(ran') = 1
        /\ \E f \in RequiredFields[ran'[1]] : f \notin DOMAIN params')
          => /\ ~crashed'
             /\ IsErrorResponse(resp')
             /\ calls' = <<>>
             /\ UNCHANGED engineVars
      ]_vars

\* apply_material_to_blueprint was refused for its missing material_path, on a
\* blueprint and a component name that were given
C2_Witness ==
    /\ pc = "returned"
    /\ ran = <<"HandleApplyMaterialToBlueprint">>
    /\ {"blueprint_name", "component_name"} \subseteq DOMAIN params
    /\ "material_path" \notin DOMAIN params
    /\ resp = CreateErrorResponse(JText("Missing 'material_path' parameter"))

\* C3: no two successful create_blueprint calls carry the same name.
\* create_blueprint(name) returns "Blueprint already exists: <name>" and changes
\* nothing when an asset exists at /Game/Blueprints/<name>; otherwise a successful
\* call adds exactly one blueprint asset, at /Game/Blueprints/<name>, the path it
\* returns; and no command ever removes an asset, so the name stays taken.
C3_CreateUnique ==
    [][/\ assets \subseteq assets'
       /\ (HandlerRan("HandleCreateBlueprint") /\ TryGetStringField(params', "name")) =>
            LET Path == PackagePath \o params'["name"].s
                NewAsset == [path |-> ToLower(Path), kind |-> "Blueprint", sections |-> 0]
            IN  IF \E a \in assets : a.path = ToLower(Path)
                THEN /\ resp' = CreateErrorResponse(
                                    JPrintf("Blueprint already exists: %s", params'["name"].s))
                     /\ UNCHANGED engineVars
                ELSE ~IsErrorResponse(resp') =>
                        /\ assets' = assets \cup {NewAsset}
                        /\ DOMAIN blueprints' = DOMAIN blueprints \cup {ToLower(Path)}
                        /\ \A b \in DOMAIN blueprints : blueprints'[b] = blueprints[b]
                        /\ resp'["path"] = JStr(Path)
      ]_vars

\* create_blueprint("q") was refused because create_blueprint("Q") had succeeded
C3_Witness ==
    /\ pc = "returned"
    /\ ran = <<"HandleCreateBlueprint">>
    /\ TryGetStringField(params, "name")
    /\ params["name"].s = NameLowerQ
    /\ resp = CreateErrorResponse(JPrintf("Blueprint already exists: %s", NameLowerQ))
    /\ ToLower(PackagePath \o NameQ) \in DOMAIN blueprints
    /\ blueprints[ToLower(PackagePath \o NameQ)].name = NameQ

\* The handlers of the inspecting commands
Inspectors ==
    {"HandleGetAvailableMaterials", "HandleGetActorMaterialInfo",
     "HandleGetBlueprintMaterialInfo", "HandleReadBlueprintContent",
     "HandleAnalyzeBlueprintGraph", "HandleGetBlueprintVariableDetails",
     "HandleGetBlueprintFunctionDetails"}

\* C4: the inspecting commands leave unchanged, on success and on error, the set
\* of blueprints, every blueprint's components, variables, graphs and modified
\* flag, and the world's actors and their materials.
C4_InspectorsChangeNothing ==
    [][(Handled /\ Len(ran') = 1 /\ ran'[1] \in Inspectors)
          => UNCHANGED <<assets, blueprints, actors, dirty>>
      ]_vars

\* get_blueprint_material_info answered for a component of a blueprint that
\* carries a material
C4_Witness ==
    /\ pc = "returned"
    /\ ran = <<"HandleGetBlueprintMaterialInfo">>
    /\ ~crashed
    /\ ~IsErrorResponse(resp)
    /\ \E b \in DOMAIN blueprints :
          \E i \in 1..Len(blueprints[b].nodes) : blueprints[b].nodes[i].materials # <<>>

\* The handlers of the mutating commands C5 names
Mutators ==
    {"HandleAddComponentToBlueprint", "HandleSetPhysicsProperties",
     "HandleSetStaticMeshProperties", "HandleSetMeshMaterialColor",
     "HandleApplyMaterialToBlueprint", "HandleApplyMaterialToActor"}

\* C5: whenever the response of one of the mutating commands
\* add_component_to_blueprint, set_physics_properties, set_static_mesh_properties,
\* set_mesh_material_color, apply_material_to_blueprint, apply_material_to_actor is
\* an error response, no construction-script node was added, no component or actor
\* material, mesh or physics property was changed, and no blueprint was marked
\* modified or compiled.
C5_ErrorChangesNothing ==
    [][(Handled /\ Len(ran') = 1 /\ ran'[1] \in Mutators /\ IsErrorResponse(resp'))
          => UNCHANGED <<blueprints, actors, dirty>>
      ]_vars

\* add_component_to_blueprint reported that the node could not be created, after
\* the blueprint and the component class were found, in an editor whose blueprint
\* had been modified by an earlier command
C5_Witness ==
    /\ pc = "returned"
    /\ ran = <<"HandleAddComponentToBlueprint">>
    /\ resp = CreateErrorResponse(JText("Failed to add component to blueprint"))
    /\ dirty # {}

\* C6: spawn_blueprint_actor adds exactly one actor to the editor world when it
\* returns a non-error response, its label actor_name and its transform built from
\* location and rotation (zero when the field is absent), and adds no actor when it
\* returns an error response; it returns an error response when the blueprint has
\* no generated class.
C6_SpawnAddsOneActor ==
    [][HandlerRan("HandleSpawnBlueprintActor") =>
          /\ ~crashed'
          /\ IF IsErrorResponse(resp')
             THEN actors' = actors
             ELSE /\ Len(actors') = Len(actors) + 1
                  /\ SubSeq(actors', 1, Len(actors)) = actors
                  /\ actors'[Len(actors')].label = params'["actor_name"].s
                  /\ actors'[Len(actors')].loc =
                        (IF "location" \in DOMAIN params'
                         THEN [i \in 1..3 |-> params'["location"].a[i].n]
                         ELSE <<0, 0, 0>>)
                  /\ actors'[Len(actors')].rot =
                        (IF "rotation" \in DOMAIN params'
                         THEN [i \in 1..3 |-> params'["rotation"].a[i].n]
                         ELSE <<0, 0, 0>>)
          /\ \A b \in DOMAIN blueprints :
                (/\ TryGetStringField(params', "blueprint_name")
                 /\ TryGetStringField(params', "actor_name")
                 /\ b = ToLower(PackagePath \o params'["blueprint_name"].s)
                 /\ ~blueprints[b].gen) => IsErrorResponse(resp')
      ]_vars

\* An actor was spawned at a location that was given and is not the origin, with
\* no rotation given
C6_Witness ==
    /\ pc = "returned"
    /\ ran = <<"HandleSpawnBlueprintActor">>
    /\ ~IsErrorResponse(resp)
    /\ "location" \in DOMAIN params
    /\ "rotation" \notin DOMAIN params
    /\ Len(actors) = Len(LevelActors) + 1
    /\ actors[Len(actors)].loc # <<0, 0, 0>>
    /\ actors[Len(actors)].label = params["actor_name"].s

\* The actor classes loaded under a path
ActorClassAt(Path) == {c \in classes : c.key = ToLower(Path) /\ c.actor}

\* The class C8 names for the parent_class given (the empty string when absent):
\* APawn or AActor when named, else the class under /Script/Engine.<name>, else the
\* one under /Script/Game.<name>, else AActor; <name> carries the "A" prefix
NamedParentClass(given) ==
    LET name == IF StartsWith(given, TextA) THEN given ELSE TextA \o given
    IN  IF given = <<>> THEN AActorStaticClass
        ELSE IF FStringEq(name, TextAPawn) THEN APawnStaticClass
        ELSE IF FStringEq(name, TextAActor) THEN AActorStaticClass
        ELSE IF ActorClassAt(ScriptEnginePrefix \o name) # {}
        THEN CHOOSE c \in ActorClassAt(ScriptEnginePrefix \o name) : TRUE
        ELSE IF ActorClassAt(ScriptGamePrefix \o name) # {}
        THEN CHOOSE c \in ActorClassAt(ScriptGamePrefix \o name) : TRUE
        ELSE AActorStaticClass

\* C8: create_blueprint never fails because of its parent_class.  For a name that
\* is free, whatever parent_class is, the handler reaches the blueprint factory and
\* hands it the class parent_class names -- AActor when parent_class is absent,
\* empty or names no class that is found -- so the only error left is the
\* factory's own; and the blueprint created has that class as its parent.
C8_ParentClassFallback ==
    [][(/\ HandlerRan("HandleCreateBlueprint")
        /\ TryGetStringField(params', "name")
        /\ ~\E a \in assets : a.path = ToLower(PackagePath \o params'["name"].s)) =>
          LET key == ToLower(PackagePath \o params'["name"].s)
              given == IF TryGetStringField(params', "parent_class")
                       THEN params'["parent_class"].s ELSE <<>>
          IN  /\ \E i \in 1..Len(calls') :
                    calls'[i] = Call("FactoryCreateNew", NamedParentClass(given).key)
              /\ IsErrorResponse(resp') =>
                    resp' = CreateErrorResponse(JText("Failed to create blueprint"))
              /\ ~IsErrorResponse(resp') =>
                    /\ key \in DOMAIN blueprints'
                    /\ blueprints'[key].parent = NamedParentClass(given).key
      ]_vars

\* A blueprint was created for a parent_class that names no class, with AActor as
\* its parent
C8_Witness ==
    /\ pc = "returned"
    /\ ran = <<"HandleCreateBlueprint">>
    /\ ~IsErrorResponse(resp)
    /\ TryGetStringField(params, "parent_class")
    /\ params["parent_class"].s = TextBogus
    /\ blueprints[ToLower(PackagePath \o params["name"].s)].parent = AActorStaticClass.key

\* The handlers of the blueprint-component commands
ComponentHandlers ==
    {"HandleSetPhysicsProperties", "HandleSetStaticMeshProperties",
     "HandleSetMeshMaterialColor", "HandleApplyMaterialToBlueprint",
     "HandleGetBlueprintMaterialInfo"}

\* The message of "component of the wrong type" of each of them
WrongTypeMessage(h) ==
    IF h \in {"HandleSetStaticMeshProperties", "HandleGetBlueprintMaterialInfo"}
    THEN JText("Component is not a static mesh component")
    ELSE JText("Component is not a primitive component")

\* The component depth h asks of the component
TypeAsked(h) ==
    IF h \in {"HandleSetStaticMeshProperties", "HandleGetBlueprintMaterialInfo"} THEN 4 ELSE 3

\* The first of the common checks of C9 that fails for handler h, parameters P and
\* the blueprints bps, as the set of its messages: empty when none fails
FirstFailingCheck(h, P, bps) ==
    IF ~TryGetStringField(P, "blueprint_name")
    THEN {JText("Missing 'blueprint_name' parameter")}
    ELSE IF ~TryGetStringField(P, "component_name")
    THEN {JText("Missing 'component_name' parameter")}
    ELSE IF h = "HandleApplyMaterialToBlueprint" /\ ~TryGetStringField(P, "material_path")
    THEN {JText("Missing 'material_path' parameter")}
    ELSE IF ToLower(PackagePath \o P["blueprint_name"].s) \notin DOMAIN bps
    THEN {JPrintf("Blueprint not found: %s", P["blueprint_name"].s)}
    ELSE LET nodes == bps[ToLower(PackagePath \o P["blueprint_name"].s)].nodes
             named == {i \in 1..Len(nodes) : FStringEq(nodes[i].name, P["component_name"].s)}
         IN  IF named = {}
             THEN {JPrintf("Component not found: %s", P["component_name"].s)}
             ELSE IF \E i \in named : (\A j \in named : i <= j) /\ nodes[i].comp < TypeAsked(h)
             THEN {WrongTypeMessage(h)}
             ELSE {}

\* The messages of the common checks
CommonMessages(h, P) ==
    {JText("Missing 'blueprint_name' parameter"), JText("Missing 'component_name' parameter"),
     JText("Missing 'material_path' parameter"), WrongTypeMessage(h)}
    \cup (IF TryGetStringField(P, "blueprint_name")
          THEN {JPrintf("Blueprint not found: %s", P["blueprint_name"].s)} ELSE {})
    \cup (IF TryGetStringField(P, "component_name")
          THEN {JPrintf("Component not found: %s", P["component_name"].s)} ELSE {})

\* What C9 says of one call of handler h
ReportsFirstFailingCheck(h) ==
    IF FirstFailingCheck(h, params', blueprints) # {}
    THEN IsErrorResponse(resp') /\ resp'["error"] \in FirstFailingCheck(h, params', blueprints)
    ELSE IsErrorResponse(resp') => resp'["error"] \notin CommonMessages(h, params')

\* C9: the blueprint-component commands (set_physics_properties,
\* set_static_mesh_properties, set_mesh_material_color, apply_material_to_blueprint,
\* get_blueprint_material_info) apply their checks in a fixed order and report the
\* first one that fails: missing blueprint_name, missing component_name, missing
\* material_path (apply_material_to_blueprint), "Blueprint not found", "Component
\* not found", component of the wrong type, and only then the checks of the command.
C9_FirstFailingCheck ==
    [][(Handled /\ Len(ran') = 1 /\ ran'[1] \in ComponentHandlers)
          => ReportsFirstFailingCheck(ran'[1])
      ]_vars

\* The same for the calls that name no blueprint lacking its construction script:
\* on those the order of C9 is the order of the handlers
C9_OrderWithConstructionScript ==
    [][(/\ Handled /\ Len(ran') = 1 /\ ran'[1] \in ComponentHandlers
        /\ \A b \in DOMAIN blueprints :
              (TryGetStringField(params', "blueprint_name")
               /\ b = ToLower(PackagePath \o params'["blueprint_name"].s)) => blueprints[b].scs)
          => ~crashed' /\ ReportsFirstFailingCheck(ran'[1])
      ]_vars

\* FString::StartsWith / EndsWith as the engine has them, folding case
StartsWithIgnoringCase(str, prefix) ==
    Len(str) >= Len(prefix) /\ ToLower(SubSeq(str, 1, Len(prefix))) = ToLower(prefix)

EndsWithIgnoringCase(str, suffix) ==
    /\ Len(str) >= Len(suffix)
    /\ ToLower(SubSeq(str, Len(str) - Len(suffix) + 1, Len(str))) = ToLower(suffix)

\* The same tests letter for letter
StartsWithExactly(str, prefix) ==
    Len(str) >= Len(prefix) /\ SubSeq(str, 1, Len(prefix)) = prefix

EndsWithExactly(str, suffix) ==
    Len(str) >= Len(suffix) /\ SubSeq(str, Len(str) - Len(suffix) + 1, Len(str)) = suffix

\* The names C10 lists for component_type T, in order, when T starts with "U"
\* (starts) or ends with "Component" (ends)
NamesToTry(T, starts, ends) ==
    <<T>> \o (IF ~ends THEN <<T \o TextComponent>> ELSE <<>>)
          \o (IF ~starts THEN <<TextU \o T>> ELSE <<>>)
          \o (IF ~starts /\ ~ends THEN <<TextU \o T \o TextComponent>> ELSE <<>>)

\* The classes of a name
ClassNamed(Name) == {c \in classes : c.key = ToLower(Name)}

\* The names of a list up to the first that names a class: all of them when none does
UpToFirstFound(names) ==
    LET found == {i \in 1..Len(names) : ClassNamed(names[i]) # {}}
    IN  IF found = {} THEN names
        ELSE SubSeq(names, 1, CHOOSE i \in found : \A j \in found : i <= j)

\* The FindObject calls of the last command, in order
IsFindObject(call) == call.api = "FindObject"

NamesTried == [i \in 1..Len(SelectSeq(calls', IsFindObject)) |->
                  SelectSeq(calls', IsFindObject)[i].arg]

\* What C10 says of one add_component_to_blueprint that found its blueprint, for
\* the names to try
ResolvesAlong(T, names) ==
    /\ NamesTried = UpToFirstFound(names)
    /\ LET last == ClassNamed(UpToFirstFound(names)[Len(UpToFirstFound(names))])
       IN  IF last = {} \/ \A c \in last : c.comp < 1
           THEN /\ resp' = CreateErrorResponse(JPrintf("Unknown component type: %s", T))
                /\ UNCHANGED blueprints
           ELSE /\ resp' # CreateErrorResponse(JPrintf("Unknown component type: %s", T))
                /\ ~IsErrorResponse(resp') =>
                      \E b \in DOMAIN blueprints :
                         /\ Len(blueprints'[b].nodes) = Len(blueprints[b].nodes) + 1
                         /\ blueprints'[b].nodes[Len(blueprints'[b].nodes)].cls
                               \in {c.key : c \in last}

\* An add_component_to_blueprint that got as far as resolving the class
ResolvedClass ==
    /\ HandlerRan("HandleAddComponentToBlueprint")
    /\ \E i \in 1..Len(calls') : IsFindObject(calls'[i])

\* C10 as stated: the tries are T, T+"Component" (only if T does not end with
\* "Component"), "U"+T (only if T does not start with "U"), "U"+T+"Component" (only
\* if neither), stopping at the first class found, where "starts with" and "ends
\* with" compare letter for letter; "Unknown component type: T" and nothing added
\* when no class is found or the class found is no UActorComponent.
C10_ResolutionOrderAsStated ==
    [][ResolvedClass =>
          ResolvesAlong(params'["component_type"].s,
                        NamesToTry(params'["component_type"].s,
                                   StartsWithExactly(params'["component_type"].s, TextU),
                                   EndsWithExactly(params'["component_type"].s, TextComponent)))
      ]_vars

\* C10 amended: the same, where "starts with" and "ends with" ignore letter case
C10_ResolutionOrder ==
    [][ResolvedClass =>
          ResolvesAlong(params'["component_type"].s,
                        NamesToTry(params'["component_type"].s,
                                   StartsWithIgnoringCase(params'["component_type"].s, TextU),
                                   EndsWithIgnoringCase(params'["component_type"].s,
                                                        TextComponent)))
      ]_vars

\* "ubox" was given where the classes UBox and UBoxComponent exist and ubox
\* names UBox itself: the component was added with one FindObject call
C10_Witness ==
    /\ pc = "returned"
    /\ ran = <<"HandleAddComponentToBlueprint">>
    /\ params["component_type"].s = TextLowerUBox
    /\ ~IsErrorResponse(resp)
    /\ Len(SelectSeq(calls, IsFindObject)) = 1
\* The three numbers of an array parameter
VectorGiven(P, f) == [i \in 1..3 |-> P[f].a[i].n]

\* The number of calls of one editor API in a call log
CountCalls(log, api) == Cardinality({i \in 1..Len(log) : log[i].api = api})

\* What C11 says of the node a successful add_component_to_blueprint made, for the
\* parameters P
NewNodeAsAsked(node, P) ==
    /\ node.loc = (IF node.comp >= 2 /\ "location" \in DOMAIN P
                   THEN VectorGiven(P, "location") ELSE <<0, 0, 0>>)
    /\ node.rot = (IF node.comp >= 2 /\ "rotation" \in DOMAIN P
                   THEN VectorGiven(P, "rotation") ELSE <<0, 0, 0>>)
    /\ node.scale = (IF node.comp >= 2 /\ "scale" \in DOMAIN P
                     THEN VectorGiven(P, "scale") ELSE <<1, 1, 1>>)

BlueprintNamed(P) == ToLower(PackagePath \o P["blueprint_name"].s)

\* The index of the first node of a construction script that carries the name
FirstNamed(nodes, Name) ==
    CHOOSE i \in 1..Len(nodes) :
        /\ FStringEq(nodes[i].name, Name)
        /\ \A j \in 1..(i - 1) : ~FStringEq(nodes[j].name, Name)

\* What C12 says of the component named, before (old) and after (new) a successful
\* set_physics_properties with parameters P
PhysicsAsAsked(old, new, P) ==
    /\ new.simulate = (IF "simulate_physics" \in DOMAIN P
                       THEN P["simulate_physics"].b ELSE old.simulate)
    /\ new.mass = (IF "mass" \in DOMAIN P THEN <<P["mass"].n>> ELSE old.mass)
    /\ new.linearDamping = (IF "linear_damping" \in DOMAIN P
                            THEN P["linear_damping"].n ELSE old.linearDamping)
    /\ new.angularDamping = (IF "angular_damping" \in DOMAIN P
                             THEN P["angular_damping"].n ELSE old.angularDamping)
    /\ [new EXCEPT !.simulate = old.simulate, !.mass = old.mass,
                   !.linearDamping = old.linearDamping,
                   !.angularDamping = old.angularDamping] = old

\* C12: a successful set_physics_properties changes, on the named component only,
\* exactly those of simulate_physics, mass, linear_damping, angular_damping whose
\* field is present in Params (to the value given), leaves the others and every
\* other component unchanged, and marks the blueprint modified in every successful
\* call, also when none of the four fields is present.
C12_PhysicsFrame ==
    [][(HandlerRan("HandleSetPhysicsProperties") /\ ~crashed' /\ ~IsErrorResponse(resp')) =>
          LET bp == BlueprintNamed(params')
              i == FirstNamed(blueprints[bp].nodes, params'["component_name"].s)
          IN  /\ bp \in DOMAIN blueprints
              /\ DOMAIN blueprints' = DOMAIN blueprints
              /\ \A b \in DOMAIN blueprints \ {bp} : blueprints'[b] = blueprints[b]
              /\ Len(blueprints'[bp].nodes) = Len(blueprints[bp].nodes)
              /\ \A j \in 1..Len(blueprints[bp].nodes) :
                    j # i => blueprints'[bp].nodes[j] = blueprints[bp].nodes[j]
              /\ PhysicsAsAsked(blueprints[bp].nodes[i], blueprints'[bp].nodes[i], params')
              /\ blueprints'[bp].status = "BS_Dirty"
              /\ bp \in dirty'
              /\ calls'[Len(calls')] = Call("MarkBlueprintAsModified", bp)
              /\ [blueprints'[bp] EXCEPT !.nodes = blueprints[bp].nodes,
                                         !.status = blueprints[bp].status] = blueprints[bp]
              /\ UNCHANGED <<actors, assets>>
      ]_vars

\* set_physics_properties succeeded with none of the four fields, on a component
\* that kept the mass and the damping earlier calls gave it, next to another
\* primitive component with physics of its own; the blueprint is marked modified
C12_Witness ==
    /\ pc = "returned"
    /\ ran = <<"HandleSetPhysicsProperties">>
    /\ ~IsErrorResponse(resp)
    /\ DOMAIN params = {"blueprint_name", "component_name"}
    /\ params["component_name"].s = NameM
    /\ \E b \in DOMAIN blueprints :
          /\ Len(blueprints[b].nodes) = 2
          /\ blueprints[b].nodes[1].name = NameM
          /\ blueprints[b].nodes[1].mass = <<7>>
          /\ blueprints[b].nodes[1].linearDamping = 1
          /\ blueprints[b].nodes[1].simulate = FALSE
          /\ blueprints[b].nodes[2].mass = <<5>>
          /\ blueprints[b].status = "BS_Dirty"
          /\ b \in dirty

\* An asset of the kind asked is loaded under the path
LoadsAs(Path, Kind) == \E a \in assets : a.path = ToLower(Path) /\ a.kind = Kind

\* The path a parameter gives: the string, empty for what is no string
PathGiven(P, f) == P[f].s

\* The material a component has in slot 0 by its own override (none: the empty sequence)
OverrideInSlot0(node) == IF Len(node.materials) >= 1 THEN <<node.materials[1]>> ELSE <<>>

\* What C13 says of the static mesh component named, before (old) and after (new)
\* a set_static_mesh_properties with parameters P
MeshAsAsked(old, new, P) ==
    /\ new.mesh = (IF "static_mesh" \in DOMAIN P /\ LoadsAs(PathGiven(P, "static_mesh"), "StaticMesh")
                   THEN <<ToLower(PathGiven(P, "static_mesh"))>> ELSE old.mesh)
    /\ IF "material" \in DOMAIN P /\ LoadsAs(PathGiven(P, "material"), "Material")
       THEN /\ OverrideInSlot0(new) = <<MaterialAsset(PathGiven(P, "material"))>>
            /\ [new EXCEPT !.mesh = old.mesh, !.materials = old.materials] = old
       ELSE [new EXCEPT !.mesh = old.mesh] = old

\* set_static_mesh_properties was given a blueprint that is found and the name of
\* a component of it that is a static mesh component
NamesStaticMeshComponent(P) ==
    /\ TryGetStringField(P, "blueprint_name")
    /\ TryGetStringField(P, "component_name")
    /\ BlueprintNamed(P) \in DOMAIN blueprints
    /\ \E i \in 1..Len(blueprints[BlueprintNamed(P)].nodes) :
          FStringEq(blueprints[BlueprintNamed(P)].nodes[i].name, P["component_name"].s)
    /\ blueprints[BlueprintNamed(P)].nodes[
          FirstNamed(blueprints[BlueprintNamed(P)].nodes, P["component_name"].s)].comp >= 4

\* C13: set_static_mesh_properties returns a non-error response and marks the
\* blueprint modified whenever the blueprint and a static mesh component of that
\* name are found, also when the static_mesh or the material path given fails to
\* load; in that case the component's static mesh (respectively its material in
\* slot 0) is left unchanged and the response is the one of a call that loaded
\* everything: the failure is not reported.
C13_LoadFailureIsSilent ==
    [][(HandlerRan("HandleSetStaticMeshProperties") /\ NamesStaticMeshComponent(params')) =>
          LET bp == BlueprintNamed(params')
              i == FirstNamed(blueprints[bp].nodes, params'["component_name"].s)
          IN  /\ ~crashed'
              /\ resp' = [component |-> JStr(params'["component_name"].s)]
              /\ blueprints'[bp].status = "BS_Dirty"
              /\ bp \in dirty'
              /\ Len(blueprints'[bp].nodes) = Len(blueprints[bp].nodes)
              /\ \A j \in 1..Len(blueprints[bp].nodes) :
                    j # i => blueprints'[bp].nodes[j] = blueprints[bp].nodes[j]
              /\ MeshAsAsked(blueprints[bp].nodes[i], blueprints'[bp].nodes[i], params')
      ]_vars

\* set_static_mesh_properties succeeded with a static_mesh path that names no asset
\* and a material path that names a mesh, on a component that kept the mesh and
\* the material earlier calls gave it
C13_Witness ==
    /\ pc = "returned"
    /\ ran = <<"HandleSetStaticMeshProperties">>
    /\ ~IsErrorResponse(resp)
    /\ "static_mesh" \in DOMAIN params /\ params["static_mesh"] = JStr(NoSuchAsset)
    /\ "material" \in DOMAIN params /\ params["material"] = JStr(CubeMesh)
    /\ \E b \in DOMAIN blueprints :
          /\ blueprints[b].nodes[1].mesh = <<ToLower(CubeMesh)>>
          /\ blueprints[b].nodes[1].materials = <<MaterialAsset(PaintAsset)>>
          /\ blueprints[b].status = "BS_Dirty"

\* A command was given a blueprint that is found, with its construction script,
\* and the name of a component of it that is a primitive component
NamesPrimitiveComponent(P) ==
    /\ TryGetStringField(P, "blueprint_name")
    /\ TryGetStringField(P, "component_name")
    /\ BlueprintNamed(P) \in DOMAIN blueprints
    /\ blueprints[BlueprintNamed(P)].scs
    /\ \E i \in 1..Len(blueprints[BlueprintNamed(P)].nodes) :
          FStringEq(blueprints[BlueprintNamed(P)].nodes[i].name, P["component_name"].s)
    /\ blueprints[BlueprintNamed(P)].nodes[
          FirstNamed(blueprints[BlueprintNamed(P)].nodes, P["component_name"].s)].comp >= 3

\* The error of set_mesh_material_color for its color parameter
ColorError ==
    CreateErrorResponse(JText("'color' must be an array of 4 float values [R, G, B, A]"))

\* The color parameter is an array of 4 elements
IsArrayOf4(P) == "color" \in DOMAIN P /\ P["color"].t = "Array" /\ Len(P["color"].a) = 4

\* The color parameter is an array of exactly 4 numbers
IsArrayOf4Numbers(P) == IsArrayOf4(P) /\ \A k \in 1..4 : P["color"].a[k].t = "Number"

\* C14: set_mesh_material_color rejects, with the error "'color' must be an array
\* of 4 float values [R, G, B, A]" and without changing any material, every color
\* parameter that is not an array of exactly 4 numbers: a missing color, a
\* non-array, an array of another length, and an array of 4 elements of which some
\* are not numbers.
C14_RejectsBadColor ==
    [][(/\ HandlerRan("HandleSetMeshMaterialColor")
        /\ NamesPrimitiveComponent(params')
        /\ ~IsArrayOf4Numbers(params'))
          => /\ resp' = ColorError
             /\ UNCHANGED <<blueprints, actors, assets, dirty>>
      ]_vars

\* The part of C14 about the shape of the parameter: a missing color, a non-array
\* and an array of another length than 4 are rejected with that error and change
\* nothing
C14_RejectsWrongShape ==
    [][(/\ HandlerRan("HandleSetMeshMaterialColor")
        /\ NamesPrimitiveComponent(params')
        /\ ~IsArrayOf4(params'))
          => /\ resp' = ColorError
             /\ UNCHANGED <<blueprints, actors, assets, dirty>>
      ]_vars

\* FMath::Clamp to [0, 1] of a number
ClampToUnit(x) == IF x < 0 THEN 0 ELSE IF x > One THEN One ELSE x

\* The numbers of the color parameter and of the color of a response
ColorGiven(P) == [k \in 1..4 |-> P["color"].a[k].n]

ColorReturned(r) == [k \in 1..4 |-> r["color"].a[k].n]

\* The material_slot given (0 when absent)
SlotGiven(P) == IF "material_slot" \in DOMAIN P THEN P["material_slot"].n ELSE 0

\* r is a float nearest to x: a float no further from x than half the distance
\* between two floats
IsNearestFloat(r, x) ==
    /\ r % FloatStep = 0
    /\ 2 * (r - x) <= FloatStep
    /\ 2 * (x - r) <= FloatStep

\* What C15 says of a set_mesh_material_color that was given 4 numbers, where
\* Expected(r, x) says what is returned (r) for the component given (x): the error
\* is not the color error, and on success the color returned, and the color of the
\* material the component has got in the slot, is as expected and within [0, 1]
ClampsColor(P, Expected(_, _)) ==
    /\ resp' # ColorError
    /\ ~IsErrorResponse(resp') =>
          LET bp == BlueprintNamed(P)
              i == FirstNamed(blueprints[bp].nodes, P["component_name"].s)
          IN  /\ \A k \in 1..4 :
                    /\ resp'["color"].a[k].t = "Number"
                    /\ Expected(ColorReturned(resp')[k], ColorGiven(P)[k])
                    /\ ColorReturned(resp')[k] >= 0
                    /\ ColorReturned(resp')[k] <= One
              /\ (blueprints[bp].nodes[i].comp >= 4 /\ SlotGiven(P) >= 0) =>
                    /\ blueprints'[bp].nodes[i].materials[SlotGiven(P) + 1].dyn
                    /\ blueprints'[bp].nodes[i].materials[SlotGiven(P) + 1].color
                          = ColorReturned(resp')

\* The color returned is the clamp of the color given
IsClampOf(r, x) == r = ClampToUnit(x)

\* The color returned is the clamp of the color given rounded to a float
IsRoundedClampOf(r, x) == IsNearestFloat(r, ClampToUnit(x))

\* A set_mesh_material_color that got as far as reading a color of 4 numbers
ReadColorOf4Numbers ==
    /\ HandlerRan("HandleSetMeshMaterialColor")
    /\ NamesPrimitiveComponent(params')
    /\ IsArrayOf4Numbers(params')

\* C15 as stated: set_mesh_material_color clamps each of the 4 color components to
\* [0, 1] before use: the color set on the material and the color array returned
\* are the component-wise clamp of the input, every returned component lies in
\* [0, 1], and an input already in [0, 1] is returned unchanged (out-of-range
\* values are clamped, not rejected).
C15_ClampAsStated ==
    [][ReadColorOf4Numbers => ClampsColor(params', IsClampOf)]_vars

\* C15 amended: the same, where the color set and returned is the component-wise
\* clamp of the input rounded to single precision: every returned component is a
\* float nearest to the clamped input, so that an input in [0, 1] that is a float
\* is returned unchanged.
C15_ClampAndRound ==
    [][ReadColorOf4Numbers => ClampsColor(params', IsRoundedClampOf)]_vars

\* A color of two doubles within [0, 1] that are no floats, 2.0 and -1.0 was
\* accepted and returned as 0.0, 1.0, 1.0, 0.0
C15_Witness ==
    /\ pc = "returned"
    /\ ran = <<"HandleSetMeshMaterialColor">>
    /\ ~IsErrorResponse(resp)
    /\ ColorGiven(params) = <<1, 3, 2 * One, 0 - One>>
    /\ ColorReturned(resp) = <<0, One, One, 0>>
    /\ \E b \in DOMAIN blueprints :
          /\ blueprints[b].nodes[1].materials # <<>>
          /\ blueprints[b].nodes[1].materials[1].color = <<0, One, One, 0>>

\* The material a component has in a slot, as GetMaterial answers
MaterialInSlot(bps, bp, i, slot) ==
    GetMaterial([assets |-> assets], bps[bp].nodes[i], slot)

\* The base material C16 names for parameters P and the component i of blueprint
\* bp (none: the empty sequence), and the error it names when there is none
BaseMaterialNamed(P, bp, i) ==
    IF TryGetStringField(P, "material_path")
    THEN IF LoadsAs(P["material_path"].s, "Material")
         THEN <<MaterialAsset(P["material_path"].s)>> ELSE <<>>
    ELSE IF MaterialInSlot(blueprints, bp, i, SlotGiven(P)) # NullMaterial
    THEN <<MaterialInSlot(blueprints, bp, i, SlotGiven(P))>>
    ELSE IF LoadsAs(BasicShapeMaterial, "Material")
    THEN <<MaterialAsset(BasicShapeMaterial)>> ELSE <<>>

NoBaseMaterialError(P) ==
    IF TryGetStringField(P, "material_path")
    THEN CreateErrorResponse(JPrintf("Failed to load material: %s", P["material_path"].s))
    ELSE CreateErrorResponse(
             JText("No material found on component and failed to load default material"))

\* What C16 says of one call on the component i of blueprint bp
AppliesBaseMaterial(P, bp, i) ==
    IF BaseMaterialNamed(P, bp, i) = <<>>
    THEN resp' = NoBaseMaterialError(P) /\ UNCHANGED blueprints
    ELSE /\ IsErrorResponse(resp') =>
               resp' = CreateErrorResponse(JText("Failed to create dynamic material instance"))
         /\ ~IsErrorResponse(resp') =>
               /\ MaterialInSlot(blueprints', bp, i, SlotGiven(P)).dyn
               /\ MaterialInSlot(blueprints', bp, i, SlotGiven(P)).path
                     = BaseMaterialNamed(P, bp, i)[1].path
               /\ blueprints'[bp].status = "BS_Dirty"
               /\ bp \in dirty'

\* A set_mesh_material_color that got as far as choosing the material
ChoseMaterial ==
    /\ HandlerRan("HandleSetMeshMaterialColor")
    /\ NamesPrimitiveComponent(params')
    /\ IsArrayOf4(params')

\* C16: set_mesh_material_color chooses the base material by this precedence: if
\* material_path is present it is loaded, and a load failure is the error "Failed
\* to load material" with no fallback; otherwise the material currently in slot
\* material_slot of the component; otherwise the default
\* /Engine/BasicShapes/BasicShapeMaterial; an error is returned only if that
\* default also fails to load.  On success slot material_slot (default 0) of the
\* component holds a new dynamic instance of the chosen material and the blueprint
\* is marked modified.
C16_BaseMaterialPrecedence ==
    [][ChoseMaterial =>
          AppliesBaseMaterial(params', BlueprintNamed(params'),
                              FirstNamed(blueprints[BlueprintNamed(params')].nodes,
                                         params'["component_name"].s))
      ]_vars

\* The same for the calls that name a static mesh component and no negative slot:
\* on those the precedence and the effect are as C16 has them
C16_OnMeshComponentSlots ==
    [][(/\ ChoseMaterial
        /\ NamesStaticMeshComponent(params')
        /\ SlotGiven(params') >= 0) =>
          AppliesBaseMaterial(params', BlueprintNamed(params'),
                              FirstNamed(blueprints[BlueprintNamed(params')].nodes,
                                         params'["component_name"].s))
      ]_vars

\* The handlers of the commands that read or change a blueprint's components
ComponentCommands ==
    {"HandleAddComponentToBlueprint", "HandleSetPhysicsProperties",
     "HandleSetStaticMeshProperties", "HandleSetMeshMaterialColor",
     "HandleApplyMaterialToBlueprint", "HandleGetBlueprintMaterialInfo",
     "HandleReadBlueprintContent"}

\* The blueprints handler h finds for parameters P: read_blueprint_content loads
\* the asset at blueprint_path, the others the blueprint blueprint_name of
\* /Game/Blueprints/
BlueprintsFound(h, P) ==
    IF h = "HandleReadBlueprintContent"
    THEN IF TryGetStringField(P, "blueprint_path")
         THEN {ToLower(P["blueprint_path"].s)} \cap DOMAIN blueprints ELSE {}
    ELSE IF TryGetStringField(P, "blueprint_name")
         THEN {BlueprintNamed(P)} \cap DOMAIN blueprints ELSE {}

\* The blueprint h found lacks what h goes on to use: its construction script, or
\* for spawn_blueprint_actor its generated class
FoundLacksPart(h, P) ==
    \E b \in BlueprintsFound(h, P) :
        IF h = "HandleSpawnBlueprintActor" THEN ~blueprints[b].gen ELSE ~blueprints[b].scs

\* C17: every command that reads or changes a blueprint's components
\* (add_component_to_blueprint, set_physics_properties, set_static_mesh_properties,
\* set_mesh_material_color, apply_material_to_blueprint,
\* get_blueprint_material_info, read_blueprint_content) returns a response, and
\* does not dereference a null pointer, when the blueprint that was found has no
\* SimpleConstructionScript, and likewise spawn_blueprint_actor when the blueprint
\* has no GeneratedClass.
C17_SurvivesMissingParts ==
    [][(/\ Handled
        /\ Len(ran') = 1
        /\ ran'[1] \in ComponentCommands \cup {"HandleSpawnBlueprintActor"}
        /\ FoundLacksPart(ran'[1], params'))
          => ~crashed' /\ resp' # EmptyObject
      ]_vars

\* The part of C17 that the handlers keep: read_blueprint_content and
\* spawn_blueprint_actor return a response on such a blueprint
C17_ReadAndSpawnSurvive ==
    [][(/\ Handled
        /\ Len(ran') = 1
        /\ ran'[1] \in {"HandleReadBlueprintContent", "HandleSpawnBlueprintActor"}
        /\ FoundLacksPart(ran'[1], params'))
          => ~crashed' /\ resp' # EmptyObject
      ]_vars

\* read_blueprint_content answered for a blueprint without construction script
C17_ReadWitness ==
    /\ pc = "returned"
    /\ ran = <<"HandleReadBlueprintContent">>
    /\ ~IsErrorResponse(resp)
    /\ \E b \in DOMAIN blueprints : ~blueprints[b].scs
====
